---- MODULE Spec2Model ----
(***************************************************************************)
(* Model of the step executor, the suite executor and the action resolver  *)
(* of ai-visual-testing (src/executor/executor.py), of the requirement     *)
(* parser (src/parser/parser.py), and of the data model of                 *)
(* src/models/models.py as far as they build it.                           *)
(*                                                                         *)
(* Five specifications share the variables:                                *)
(*   Spec          execute_test_suite: one suite run over one browser      *)
(*                 session, every execute_step call in full;               *)
(*   SpecStep      one execute_step call, with the wide domain of AI       *)
(*                 verdicts;                                               *)
(*   SpecResolver  one call of _click/_type/_fill/_select/_check/_uncheck, *)
(*                 one strategy attempt at a time;                         *)
(*   SpecParser    one parse_file call on one requirement document;        *)
(*   SpecSuite     one TestSuite construction from any list of TestSteps.  *)
(* An atomic step of the model is the code between two awaits (a page      *)
(* call, an AI call) or up to a function's return.                         *)
(*                                                                         *)
(* Not modelled: time. duration_ms is left out of the results; a wall      *)
(* clock stepping backwards while a step runs is outside the model.        *)
(* asyncio cancellation (a BaseException) is outside the model too.        *)
(***************************************************************************)
EXTENDS Integers, Sequences, FiniteSets, TLC

(***************************************************************************)
(* Bounds of the model.                                                    *)
(***************************************************************************)
MaxSteps == 2
MaxActions == 2
MaxVerifs == 2
MaxSuiteVerifs == 1
MaxIssues == 1
MaxMarkers == 3
MaxStepNumber == 3
MaxGlobals == 2

(***************************************************************************)
(* Program constants.                                                      *)
(***************************************************************************)
WARNING_CONFIDENCE == 70
MAX_STEP_NUMBER == 10000

PENDING == "pending"
PASSED == "passed"
FAILED == "failed"
WARNING == "warning"
SKIPPED == "skipped"
StepStatus == {PASSED, FAILED, WARNING, SKIPPED, PENDING}

CRITICAL == "critical"
MAJOR == "major"
MINOR == "minor"
INFO == "info"
Severity == {CRITICAL, MAJOR, MINOR, INFO}

None == "None"

(***************************************************************************)
(* Input domains: the verdicts the AI capability may return for one        *)
(* requirement. An issue carries the requirement it was reported for as    *)
(* its description, so that issues of different verifications differ.      *)
(***************************************************************************)
SeqsUpTo(S, n) == UNION {[1..m -> S] : m \in 0..n}

Confidences == {69, 70, 95}
IssueSeverities == {CRITICAL, MINOR}

Issue(sev, text) == [severity |-> sev, description |-> text]

IssueLists(text, sevs, n) ==
    {[j \in 1..Len(ss) |-> Issue(ss[j], text)] : ss \in SeqsUpTo(sevs, n)}

VerificationResult(text, p, c, is, why) ==
    [requirement |-> text, passed |-> p, confidence |-> c, issues |-> is,
     ai_reasoning |-> why]

\* The verdicts drawn in SpecStep.
AIVerdicts(text) ==
    {VerificationResult(text, p, c, is, "ai") :
        p \in BOOLEAN, c \in Confidences,
        is \in IssueLists(text, IssueSeverities, MaxIssues)}

\* The verdicts drawn in Spec (a suite run): a sub-domain of AIVerdicts.
SuiteVerdicts(text) ==
    {VerificationResult(text, p, 95, is, "ai") :
        p \in BOOLEAN, is \in IssueLists(text, {MINOR}, 1)}

VerificationText(j) == <<"requirement", j>>

\* The steps execute_step may be given: actions are named by their position.
TestSteps(n, maxv) ==
    {[step_number |-> n,
      actions |-> [j \in 1..na |-> j],
      verifications |-> [j \in 1..nv |-> VerificationText(j)]] :
        na \in 0..MaxActions, nv \in 0..maxv}

(***************************************************************************)
(* _calculate_step_status and _extract_issues.                             *)
(***************************************************************************)
\* Mutant: the warning test comes before the failure test.
CalculateStepStatus_WarningFirst(verification_results) ==
    IF verification_results = <<>> THEN PENDING
    ELSE IF \E j \in 1..Len(verification_results) :
               \/ verification_results[j].confidence < WARNING_CONFIDENCE
               \/ \E m \in 1..Len(verification_results[j].issues) :
                     verification_results[j].issues[m].severity = MINOR
         THEN WARNING
    ELSE IF \E j \in 1..Len(verification_results) :
               ~verification_results[j].passed
         THEN FAILED
    ELSE PASSED

\* Mutant: the confidence test is <= instead of <.
CalculateStepStatus_AtMost(verification_results) ==
    IF verification_results = <<>> THEN PENDING
    ELSE IF \E j \in 1..Len(verification_results) :
               ~verification_results[j].passed
         THEN FAILED
    ELSE IF \E j \in 1..Len(verification_results) :
               \/ verification_results[j].confidence <= WARNING_CONFIDENCE
               \/ \E m \in 1..Len(verification_results[j].issues) :
                     verification_results[j].issues[m].severity = MINOR
         THEN WARNING
    ELSE PASSED

\* Mutant: no early return for the empty list (all() of nothing passes).
CalculateStepStatus_NoEmptyCase(verification_results) ==
    IF \E j \in 1..Len(verification_results) :
               ~verification_results[j].passed
         THEN FAILED
    ELSE IF \E j \in 1..Len(verification_results) :
               \/ verification_results[j].confidence < WARNING_CONFIDENCE
               \/ \E m \in 1..Len(verification_results[j].issues) :
                     verification_results[j].issues[m].severity = MINOR
         THEN WARNING
    ELSE PASSED

CalculateStepStatus(verification_results) ==
    IF verification_results = <<>> THEN PENDING
    ELSE IF \E j \in 1..Len(verification_results) :
               ~verification_results[j].passed
         THEN FAILED
    ELSE IF \E j \in 1..Len(verification_results) :
               \/ verification_results[j].confidence < WARNING_CONFIDENCE
               \/ \E m \in 1..Len(verification_results[j].issues) :
                     verification_results[j].issues[m].severity = MINOR
         THEN WARNING
    ELSE PASSED

RECURSIVE ExtractIssues_All(_)
\* Mutant: the issues of every verification result, passed or not.
ExtractIssues_All(verification_results) ==
    IF verification_results = <<>> THEN <<>>
    ELSE Head(verification_results).issues
             \o ExtractIssues_All(Tail(verification_results))

RECURSIVE ExtractIssues(_)
ExtractIssues(verification_results) ==
    IF verification_results = <<>> THEN <<>>
    ELSE (IF ~Head(verification_results).passed
          THEN Head(verification_results).issues
          ELSE <<>>)
             \o ExtractIssues(Tail(verification_results))

\* sum(1 for issue in issues if issue.severity == severity)
CountSeverity(issues, severity) ==
    Cardinality({m \in 1..Len(issues) : issues[m].severity = severity})

RECURSIVE CountVerificationIssues(_, _)
CountVerificationIssues(verifications, severity) ==
    IF verifications = <<>> THEN 0
    ELSE CountSeverity(verifications[1].issues, severity)
         + CountVerificationIssues(Tail(verifications), severity)

\* TestResults.count_issues: for every step result, its own issues and the
\* issues of its verification results.
RECURSIVE CountIssues(_, _)
CountIssues(step_results, severity) ==
    IF step_results = <<>> THEN 0
    ELSE CountSeverity(step_results[1].issues, severity)
         + CountVerificationIssues(step_results[1].verifications, severity)
         + CountIssues(Tail(step_results), severity)

(***************************************************************************)
(* StepResult, as execute_step builds it on its two return paths.          *)
(***************************************************************************)
StepResult(stp, status, vrs, shot, html, issues, err) ==
    [step_number |-> stp.step_number, status |-> status,
     verifications |-> vrs, screenshot |-> shot, html_snapshot |-> html,
     issues |-> issues, error_message |-> err]

SuccessResult(stp, vrs) ==
    StepResult(stp, CalculateStepStatus(vrs), vrs, "png", "html",
               ExtractIssues(vrs), None)

\* Mutant: the handler's result keeps the default status.
ErrorResult_Pending(stp, err) ==
    StepResult(stp, PENDING, <<>>, None, None, <<>>, err)

ErrorResult(stp, err) ==
    StepResult(stp, FAILED, <<>>, None, None, <<>>, err)

\* The synthetic result of a verification whose AI call raised.
FailedVerification(text) ==
    VerificationResult(text, FALSE, 0, <<>>, "Verification error")

(***************************************************************************)
(* State.                                                                  *)
(*   entry        the function the run entered: "execute_test_suite",      *)
(*                "execute_step" or "resolve"                              *)
(*   pc           the control point                                        *)
(*   config       config.testing (base_url is never empty: TestingConfig)  *)
(*   suite_len    len(test_suite.steps); step i has step_number i          *)
(*   handles      the executor's non-None handles among Resources          *)
(*   live         the browser resources that are open                      *)
(*   results      results.step_results                                     *)
(*   i            the index of the step the for loop is at                 *)
(*   pending      the exception in flight through the finally clause       *)
(*   teardowns    how many times _teardown_browser has run                 *)
(*   nav_outcome  how the base-URL page.goto ended                         *)
(*   step, k, state_after, verification_results, ret                       *)
(*                execute_step: its argument, the number of actions        *)
(*                started, its locals and its return value                 *)
(*   calls        page and AI calls made by the current execute_step       *)
(*   action, strategy_index, attempted_selectors, last_error, raised       *)
(*                the resolver: its action, loop position, locals and the  *)
(*                ActionExecutionError it raised                           *)
(*   page_calls   the page calls of the resolver, with their outcome       *)
(*   document     the requirement document parse_file reads: the bullets   *)
(*                of its "For all pages:" section that yield a             *)
(*                verification, and its numbered step markers, each with   *)
(*                the text up to the next marker, in document order        *)
(*   global_requirements, steps, test_steps, suite                         *)
(*                parse_file: its locals and the TestSuite it builds       *)
(*   parse_error  the ValueError that left parse_file or TestSuite         *)
(*   missing      the step numbers _validate_suite logged as missing       *)
(*   cache, max_size, ttl_seconds, hits, misses                            *)
(*                the fields of a ResponseCache; cache lists the entries   *)
(*                of the dict in insertion order                           *)
(*   now          datetime.now(), in seconds                               *)
(*   got          what the last call on the cache returned or raised       *)
(*   evicted      whether the last call on the cache evicted an entry      *)
(*   global_section, sentences                                             *)
(*                the bullets of the "For all pages:" section and the      *)
(*                sentences of one step's text, each a list of words       *)
(*   step_verifications, seen_texts, matched                               *)
(*                _extract_verifications on the step text: its             *)
(*                verifications so far, its seen_texts, and for each       *)
(*                sentence scanned the first pattern that matched and the  *)
(*                pattern that was used                                    *)
(*   step_actions what _extract_actions returned for the step text         *)
(*   parsed_step  the TestStep _parse_step returned                        *)
(***************************************************************************)
VARIABLES entry, pc, config, suite_len, handles, live, results, i, pending,
          teardowns, nav_outcome, step, k, state_after, verification_results,
          ret, calls, action, strategy_index, attempted_selectors, last_error,
          raised, page_calls, document, global_requirements, steps,
          test_steps, suite, parse_error, missing, cache, max_size,
          ttl_seconds, hits, misses, now, got, evicted, global_section, sentences,
          step_verifications, seen_texts, matched, step_actions, parsed_step

suiteVars == <<config, suite_len, handles, live, results, i, pending,
               teardowns, nav_outcome>>
stepVars == <<step, k, state_after, verification_results, ret, calls>>
resolverVars == <<action, strategy_index, attempted_selectors, last_error,
                  raised, page_calls>>
parserVars == <<document, global_requirements, steps, test_steps, suite,
                parse_error, missing>>
cacheVars == <<cache, max_size, ttl_seconds, hits, misses, now, got,
               evicted>>
textVars == <<global_section, sentences, step_verifications, seen_texts,
              matched, step_actions, parsed_step>>
vars == <<entry, pc, suiteVars, stepVars, resolverVars, parserVars, cacheVars,
          textVars>>

SetupOrder == <<"playwright", "browser", "context", "page">>
TeardownOrder == <<"page", "context", "browser", "playwright">>
Resources == {SetupOrder[j] : j \in 1..Len(SetupOrder)}

\* calls: the page and AI calls of the current execute_step, and which of them
\* raised (the position of the action that raised, 0 for none).
NoCalls == [action |-> 0, capture |-> 0, ai |-> 0, failed_action |-> 0,
            capture_failed |-> FALSE, ai_raised |-> {}]

StepIdle ==
    /\ step = None
    /\ k = 0
    /\ state_after = None
    /\ verification_results = <<>>
    /\ ret = None
    /\ calls = NoCalls

SuiteIdle ==
    /\ config = [stop_on_failure |-> FALSE]
    /\ suite_len = 0
    /\ results = <<>>
    /\ i = 0
    /\ pending = None
    /\ teardowns = 0
    /\ nav_outcome = None

ResolverIdle ==
    /\ action = None
    /\ strategy_index = 0
    /\ attempted_selectors = <<>>
    /\ last_error = None
    /\ raised = None
    /\ page_calls = <<>>

\* No document, no suite, no error: a TestSuite has at least one step and a
\* step number named by an error is never negative.
NoDocument == [globals |-> <<>>, markers |-> <<>>]
NoSuite == [steps |-> <<>>, global_requirements |-> <<>>]
NoError == [type |-> None, message |-> None, step_num |-> -1]

\* No cache: a ResponseCache has max_size >= 1 and ttl_seconds >= 1.
CacheIdle ==
    /\ cache = <<>>
    /\ max_size = 0
    /\ ttl_seconds = 0
    /\ hits = 0
    /\ misses = 0
    /\ now = 0
    /\ got = None
    /\ evicted = FALSE

NoStep == [verifications |-> <<>>, actions |-> <<>>, returned |-> FALSE]

TextIdle ==
    /\ global_section = <<>>
    /\ sentences = <<>>
    /\ step_verifications = <<>>
    /\ seen_texts = {}
    /\ matched = <<>>
    /\ step_actions = <<>>
    /\ parsed_step = NoStep

ParserIdle ==
    /\ document = NoDocument
    /\ global_requirements = <<>>
    /\ steps = <<>>
    /\ test_steps = <<>>
    /\ suite = NoSuite
    /\ parse_error = NoError
    /\ missing = {}

(***************************************************************************)
(* execute_step.                                                           *)
(***************************************************************************)
\* The verdicts the AI capability may return for a requirement.
Verdicts(text) ==
    IF entry = "execute_step" THEN AIVerdicts(text) ELSE SuiteVerdicts(text)

\* After the state capture and after each verification: the next AI call,
\* or, past the last verification, the status, the issues and the return.
Resume(vrs) ==
    /\ verification_results' = vrs
    /\ IF Len(vrs) = Len(step.verifications)
       THEN /\ ret' = SuccessResult(step, vrs)
            /\ pc' = "returned"
       ELSE /\ ret' = ret
            /\ pc' = "verify"

\* _execute_action returns.
ExecuteAction ==
    /\ pc = "actions"
    /\ k < Len(step.actions)
    /\ k' = k + 1
    /\ calls' = [calls EXCEPT !.action = @ + 1]
    /\ UNCHANGED <<entry, parserVars, cacheVars, textVars, pc, suiteVars, resolverVars, step, state_after,
                   verification_results, ret>>

\* Mutant: the failure of an action is logged and the loop goes on.
ExecuteActionError_Continue ==
    /\ pc = "actions"
    /\ k < Len(step.actions)
    /\ k' = k + 1
    /\ calls' = [calls EXCEPT !.action = @ + 1, !.failed_action = k + 1]
    /\ UNCHANGED <<entry, parserVars, cacheVars, textVars, pc, suiteVars, resolverVars, step, state_after,
                   verification_results, ret>>

\* _execute_action raises: ActionExecutionError is re-raised, any other
\* exception is wrapped into one; execute_step's handler returns FAILED.
ExecuteActionError ==
    /\ pc = "actions"
    /\ k < Len(step.actions)
    /\ k' = k + 1
    /\ calls' = [calls EXCEPT !.action = @ + 1, !.failed_action = k + 1]
    /\ \E e \in {"ActionExecutionError", "ActionExecutionError: Failed to execute action"} :
          ret' = ErrorResult(step, e)
    /\ pc' = "returned"
    /\ UNCHANGED <<entry, parserVars, cacheVars, textVars, suiteVars, resolverVars, step, state_after,
                   verification_results>>

\* _capture_state returns a PageState.
CaptureState ==
    /\ pc = "actions"
    /\ k = Len(step.actions)
    /\ state_after' = "PageState"
    /\ calls' = [calls EXCEPT !.capture = @ + 1]
    /\ Resume(<<>>)
    /\ UNCHANGED <<entry, parserVars, cacheVars, textVars, suiteVars, resolverVars, step, k>>

\* Mutant: the capture is outside the try block, its failure propagates.
CaptureStateError_Propagates ==
    /\ pc = "actions"
    /\ k = Len(step.actions)
    /\ calls' = [calls EXCEPT !.capture = @ + 1, !.capture_failed = TRUE]
    /\ pc' = "step_raised"
    /\ UNCHANGED <<entry, parserVars, cacheVars, textVars, suiteVars, resolverVars, step, k, state_after,
                   verification_results, ret>>

\* _capture_state raises RuntimeError: execute_step's handler returns FAILED.
CaptureStateError ==
    /\ pc = "actions"
    /\ k = Len(step.actions)
    /\ calls' = [calls EXCEPT !.capture = @ + 1, !.capture_failed = TRUE]
    /\ ret' = ErrorResult(step, "RuntimeError: Failed to capture page state")
    /\ pc' = "returned"
    /\ UNCHANGED <<entry, parserVars, cacheVars, textVars, suiteVars, resolverVars, step, k, state_after,
                   verification_results>>

\* _verify_with_ai returns the capability's verdict.
VerifyWithAI ==
    /\ pc = "verify"
    /\ calls' = [calls EXCEPT !.ai = @ + 1]
    /\ \E r \in Verdicts(step.verifications[Len(verification_results) + 1]) :
          Resume(Append(verification_results, r))
    /\ UNCHANGED <<entry, parserVars, cacheVars, textVars, suiteVars, resolverVars, step, k, state_after>>

\* Mutant: a raising AI call is not caught per requirement; the step's
\* handler takes it.
VerifyWithAIError_AbortsStep ==
    /\ pc = "verify"
    /\ calls' = [calls EXCEPT !.ai = @ + 1,
                               !.ai_raised = @ \cup {Len(verification_results) + 1}]
    /\ ret' = ErrorResult(step, "Exception")
    /\ pc' = "returned"
    /\ UNCHANGED <<entry, parserVars, cacheVars, textVars, suiteVars, resolverVars, step, k, state_after,
                   verification_results>>

\* _verify_with_ai raises: the synthetic failed result takes its place.
VerifyWithAIError ==
    /\ pc = "verify"
    /\ calls' = [calls EXCEPT !.ai = @ + 1,
                               !.ai_raised = @ \cup {Len(verification_results) + 1}]
    /\ Resume(Append(verification_results,
                     FailedVerification(
                         step.verifications[Len(verification_results) + 1])))
    /\ UNCHANGED <<entry, parserVars, cacheVars, textVars, suiteVars, resolverVars, step, k, state_after>>

ExecuteStep ==
    \/ ExecuteAction
    \/ ExecuteActionError
    \/ CaptureState
    \/ CaptureStateError
    \/ VerifyWithAI
    \/ VerifyWithAIError

InitStep ==
    /\ entry = "execute_step"
    /\ pc = "actions"
    /\ SuiteIdle
    /\ handles = Resources
    /\ live = Resources
    /\ step \in TestSteps(1, MaxVerifs)
    /\ k = 0
    /\ state_after = None
    /\ verification_results = <<>>
    /\ ret = None
    /\ calls = NoCalls
    /\ ResolverIdle
    /\ ParserIdle
    /\ CacheIdle
    /\ TextIdle

NextStep == ExecuteStep

SpecStep == InitStep /\ [][NextStep]_vars

(***************************************************************************)
(* execute_test_suite, _setup_browser and _teardown_browser.               *)
(***************************************************************************)
\* The first n resources in the order _setup_browser acquires them.
Acquired(n) == {SetupOrder[j] : j \in 1..n}

\* The handles _teardown_browser closes, in its order.
ToClose == SelectSeq(TeardownOrder, LAMBDA r : r \in handles)

\* _setup_browser returns; results is initialised.
SetupBrowser ==
    /\ pc = "init"
    /\ handles' = Resources
    /\ live' = Resources
    /\ results' = <<>>
    /\ pc' = "navigate"
    /\ UNCHANGED <<entry, parserVars, cacheVars, textVars, config, suite_len, i, pending, teardowns,
                   nav_outcome, stepVars, resolverVars>>

\* _setup_browser raises after n acquisitions: the exception leaves
\* execute_test_suite, which has not entered its try block.
SetupBrowserError ==
    /\ pc = "init"
    /\ \E n \in 0..(Len(SetupOrder) - 1) :
          /\ handles' = Acquired(n)
          /\ live' = Acquired(n)
    /\ pending' = "SetupError"
    /\ pc' = "raised"
    /\ UNCHANGED <<entry, parserVars, cacheVars, textVars, config, suite_len, results, i, teardowns,
                   nav_outcome, stepVars, resolverVars>>

\* page.goto(base_url) returns.
Navigate ==
    /\ pc = "navigate"
    /\ nav_outcome' = "ok"
    /\ pc' = "steps"
    /\ UNCHANGED <<entry, parserVars, cacheVars, textVars, config, suite_len, handles, live, results, i,
                   pending, teardowns, stepVars, resolverVars>>

\* Mutant: a navigation timeout is handled like any other navigation error.
NavigateTimeout_Fatal ==
    /\ pc = "navigate"
    /\ nav_outcome' = "timeout"
    /\ pending' = "RuntimeError"
    /\ pc' = "teardown"
    /\ UNCHANGED <<entry, parserVars, cacheVars, textVars, config, suite_len, handles, live, results, i,
                   teardowns, stepVars, resolverVars>>

\* page.goto(base_url) times out: logged, the run goes on.
NavigateTimeout ==
    /\ pc = "navigate"
    /\ nav_outcome' = "timeout"
    /\ pc' = "steps"
    /\ UNCHANGED <<entry, parserVars, cacheVars, textVars, config, suite_len, handles, live, results, i,
                   pending, teardowns, stepVars, resolverVars>>

\* Mutant: the navigation is outside the try/finally block.
NavigateError_NoFinally ==
    /\ pc = "navigate"
    /\ nav_outcome' = "error"
    /\ pending' = "RuntimeError"
    /\ pc' = "raised"
    /\ UNCHANGED <<entry, parserVars, cacheVars, textVars, config, suite_len, handles, live, results, i,
                   teardowns, stepVars, resolverVars>>

\* page.goto(base_url) raises another exception: RuntimeError is raised
\* and passes through the finally clause.
NavigateError ==
    /\ pc = "navigate"
    /\ nav_outcome' = "error"
    /\ pending' = "RuntimeError"
    /\ pc' = "teardown"
    /\ UNCHANGED <<entry, parserVars, cacheVars, textVars, config, suite_len, handles, live, results, i,
                   teardowns, stepVars, resolverVars>>

\* Mutant: the loop walks the steps from the last to the first.
BeginStep_Descending ==
    /\ pc = "steps"
    /\ i < suite_len
    /\ i' = i + 1
    /\ step' \in TestSteps(suite_len - i, MaxSuiteVerifs)
    /\ k' = 0
    /\ calls' = NoCalls
    /\ pc' = "actions"
    /\ UNCHANGED <<entry, parserVars, cacheVars, textVars, config, suite_len, handles, live, results, pending,
                   teardowns, nav_outcome, state_after, verification_results,
                   ret, resolverVars>>

\* The for loop takes the next step and calls execute_step.
BeginStep ==
    /\ pc = "steps"
    /\ i < suite_len
    /\ i' = i + 1
    /\ step' \in TestSteps(i + 1, MaxSuiteVerifs)
    /\ k' = 0
    /\ calls' = NoCalls
    /\ pc' = "actions"
    /\ UNCHANGED <<entry, parserVars, cacheVars, textVars, config, suite_len, handles, live, results, pending,
                   teardowns, nav_outcome, state_after, verification_results,
                   ret, resolverVars>>

\* The for loop is exhausted.
EndSteps ==
    /\ pc = "steps"
    /\ i = suite_len
    /\ pc' = "teardown"
    /\ UNCHANGED <<entry, parserVars, cacheVars, textVars, suiteVars, stepVars, resolverVars>>

\* Mutant: the loop never breaks on a FAILED result.
AppendResult_NoStop ==
    /\ pc = "returned"
    /\ results' = Append(results, ret)
    /\ pc' = "steps"
    /\ step' = None
    /\ k' = 0
    /\ state_after' = None
    /\ verification_results' = <<>>
    /\ ret' = None
    /\ calls' = NoCalls
    /\ UNCHANGED <<entry, parserVars, cacheVars, textVars, config, suite_len, handles, live, i, pending,
                   teardowns, nav_outcome, resolverVars>>

\* Mutant: the FAILED result that breaks the loop is not appended.
AppendResult_DropsOnStop ==
    /\ pc = "returned"
    /\ results' = IF ret.status = FAILED /\ config.stop_on_failure
                  THEN results ELSE Append(results, ret)
    /\ pc' = IF ret.status = FAILED /\ config.stop_on_failure
             THEN "teardown" ELSE "steps"
    /\ step' = None
    /\ k' = 0
    /\ state_after' = None
    /\ verification_results' = <<>>
    /\ ret' = None
    /\ calls' = NoCalls
    /\ UNCHANGED <<entry, parserVars, cacheVars, textVars, config, suite_len, handles, live, i, pending,
                   teardowns, nav_outcome, resolverVars>>

\* Mutant: a FAILED result breaks the loop whatever the configuration.
AppendResult_StopsAlways ==
    /\ pc = "returned"
    /\ results' = Append(results, ret)
    /\ pc' = IF ret.status = FAILED THEN "teardown" ELSE "steps"
    /\ step' = None
    /\ k' = 0
    /\ state_after' = None
    /\ verification_results' = <<>>
    /\ ret' = None
    /\ calls' = NoCalls
    /\ UNCHANGED <<entry, parserVars, cacheVars, textVars, config, suite_len, handles, live, i,
                   pending, teardowns, nav_outcome, resolverVars>>

\* execute_step has returned: its result is appended; a FAILED result
\* breaks the loop when stop_on_failure is configured.
AppendResult ==
    /\ pc = "returned"
    /\ results' = Append(results, ret)
    /\ pc' = IF ret.status = FAILED /\ config.stop_on_failure
             THEN "teardown" ELSE "steps"
    /\ step' = None
    /\ k' = 0
    /\ state_after' = None
    /\ verification_results' = <<>>
    /\ ret' = None
    /\ calls' = NoCalls
    /\ UNCHANGED <<entry, parserVars, cacheVars, textVars, config, suite_len, handles, live, i, pending,
                   teardowns, nav_outcome, resolverVars>>

\* Mutant: _teardown_browser without its except and finally clauses: a close
\* that raises leaves the handles set and replaces what the run was about
\* to return or raise.
TeardownBrowser_Propagates ==
    /\ pc = "teardown"
    /\ \E f \in 0..Len(ToClose) :
          /\ live' = live \ {ToClose[j] : j \in 1..f}
          /\ handles' = IF f = Len(ToClose) THEN {} ELSE handles
          /\ pending' = IF f = Len(ToClose) THEN pending ELSE "TeardownError"
    /\ teardowns' = teardowns + 1
    /\ pc' = IF pending' = None THEN "done" ELSE "raised"
    /\ UNCHANGED <<entry, parserVars, cacheVars, textVars, config, suite_len, results, i, nav_outcome,
                   stepVars, resolverVars>>

\* _teardown_browser in the finally clause: the handles are closed in order
\* until one close raises (f closes succeed); every handle is set to None;
\* then the pending exception goes on, or the results are returned.
TeardownBrowser ==
    /\ pc = "teardown"
    /\ \E f \in 0..Len(ToClose) :
          live' = live \ {ToClose[j] : j \in 1..f}
    /\ handles' = {}
    /\ teardowns' = teardowns + 1
    /\ pc' = IF pending = None THEN "done" ELSE "raised"
    /\ UNCHANGED <<entry, parserVars, cacheVars, textVars, config, suite_len, results, i, pending,
                   nav_outcome, stepVars, resolverVars>>

Init ==
    /\ entry = "execute_test_suite"
    /\ pc = "init"
    /\ config \in [stop_on_failure : BOOLEAN]
    /\ suite_len \in 1..MaxSteps
    /\ handles = {}
    /\ live = {}
    /\ results = <<>>
    /\ i = 0
    /\ pending = None
    /\ teardowns = 0
    /\ nav_outcome = None
    /\ StepIdle
    /\ ResolverIdle
    /\ ParserIdle
    /\ CacheIdle
    /\ TextIdle

Next ==
    \/ SetupBrowser
    \/ SetupBrowserError
    \/ Navigate
    \/ NavigateTimeout
    \/ NavigateError
    \/ BeginStep
    \/ ExecuteStep
    \/ AppendResult
    \/ EndSteps
    \/ TeardownBrowser

Spec == Init /\ [][Next]_vars

(***************************************************************************)
(* The action resolver: _click, _type, _fill, _select, _check, _uncheck.   *)
(* A selector is the pair <<template, argument>> of its f-string; two      *)
(* templates never give the same text. A target is its characters.         *)
(***************************************************************************)
Targets == {<<"L", "o", "g", "i", "n">>, <<"#", "m", "a", "i", "n">>,
            <<".", "b", "t", "n">>}
Value == <<"v", "a", "l">>
NoValue == <<>>
PageErrors == {"TimeoutError", "Error"}

StartsWith(target, c) == Len(target) > 0 /\ target[1] = c

Strategy(template, arg, called) ==
    [selector |-> <<template, arg>>, calls_page |-> called]

\* _click: the last two lambdas return None unless the target looks like
\* an id or a class.
ClickStrategies(target) ==
    << Strategy("text=\"{}\"", target, TRUE),
       Strategy("button:has-text(\"{}\")", target, TRUE),
       Strategy("a:has-text(\"{}\")", target, TRUE),
       Strategy("[aria-label=\"{}\"]", target, TRUE),
       Strategy("[title=\"{}\"]", target, TRUE),
       Strategy("text=/{}/i", target, TRUE),
       Strategy("#{}", target, StartsWith(target, "#")),
       Strategy(".{}", target, StartsWith(target, ".")) >>

TypeStrategies(target) ==
    << Strategy("input[name=\"{}\"]", target, TRUE),
       Strategy("input[placeholder*=\"{}\"]", target, TRUE),
       Strategy("input[id*=\"{}\"]", target, TRUE),
       Strategy("textarea[name=\"{}\"]", target, TRUE),
       Strategy("textarea[placeholder*=\"{}\"]", target, TRUE),
       Strategy("label:has-text(\"{}\") + input", target, TRUE),
       Strategy("label:has-text(\"{}\") + textarea", target, TRUE) >>

\* _select: three selectors for the select element, then a click on the
\* option's text.
SelectStrategies(target, value) ==
    << Strategy("select[name=\"{}\"]", target, TRUE),
       Strategy("select[id*=\"{}\"]", target, TRUE),
       Strategy("label:has-text(\"{}\") + select", target, TRUE),
       Strategy("text=\"{}\"", value, TRUE) >>

CheckStrategies(target) ==
    << Strategy("input[type=\"checkbox\"][name=\"{}\"]", target, TRUE),
       Strategy("input[type=\"radio\"][name=\"{}\"]", target, TRUE),
       Strategy("input[type=\"checkbox\"][id*=\"{}\"]", target, TRUE),
       Strategy("input[type=\"radio\"][id*=\"{}\"]", target, TRUE),
       Strategy("label:has-text(\"{}\") input[type=\"checkbox\"]", target, TRUE),
       Strategy("label:has-text(\"{}\") input[type=\"radio\"]", target, TRUE) >>

UncheckStrategies(target) ==
    << Strategy("input[type=\"checkbox\"][name=\"{}\"]", target, TRUE),
       Strategy("input[type=\"checkbox\"][id*=\"{}\"]", target, TRUE),
       Strategy("label:has-text(\"{}\") input[type=\"checkbox\"]", target, TRUE) >>

\* _fill delegates to _type.
Strategies(a) ==
    CASE a.type = "click" -> ClickStrategies(a.target)
      [] a.type \in {"type", "fill"} -> TypeStrategies(a.target)
      [] a.type = "select" -> SelectStrategies(a.target, a.value)
      [] a.type = "check" -> CheckStrategies(a.target)
      [] a.type = "uncheck" -> UncheckStrategies(a.target)

InSeq(x, seq) == \E j \in 1..Len(seq) : seq[j] = x

\* Mutant: a successful page call does not return; the loop goes on.
TrySelector_NoReturn(selector) ==
    \E out \in {"ok"} \cup PageErrors :
        /\ page_calls' = Append(page_calls, [selector |-> selector, result |-> out])
        /\ last_error' = IF out = "ok" THEN last_error ELSE out
        /\ strategy_index' = strategy_index + 1
        /\ pc' = pc

\* One attempt: the page is asked to act on the selector; success returns
\* from the resolver, an exception is kept as last_error and the loop goes on.
TrySelector(selector) ==
    \E out \in {"ok"} \cup PageErrors :
        /\ page_calls' = Append(page_calls, [selector |-> selector, result |-> out])
        /\ IF out = "ok"
           THEN /\ pc' = "resolved"
                /\ UNCHANGED <<last_error, strategy_index>>
           ELSE /\ last_error' = out
                /\ strategy_index' = strategy_index + 1
                /\ pc' = pc

\* Mutant: a selector is recorded only when its strategy calls the page.
Click_RecordsOnlyCalled ==
    /\ pc = "resolving"
    /\ action.type = "click"
    /\ strategy_index < Len(ClickStrategies(action.target))
    /\ LET s == ClickStrategies(action.target)[strategy_index + 1] IN
          IF s.calls_page
          THEN /\ attempted_selectors' = Append(attempted_selectors, s.selector)
               /\ TrySelector(s.selector)
          ELSE /\ strategy_index' = strategy_index + 1
               /\ UNCHANGED <<pc, last_error, page_calls, attempted_selectors>>
    /\ UNCHANGED <<entry, parserVars, cacheVars, textVars, action, raised, suiteVars, stepVars>>

\* One iteration of the loop of _click.
Click ==
    /\ pc = "resolving"
    /\ action.type = "click"
    /\ strategy_index < Len(ClickStrategies(action.target))
    /\ LET s == ClickStrategies(action.target)[strategy_index + 1] IN
          /\ attempted_selectors' =
                IF InSeq(s.selector, attempted_selectors)
                THEN attempted_selectors
                ELSE Append(attempted_selectors, s.selector)
          /\ IF s.calls_page
             THEN TrySelector(s.selector)
             ELSE /\ strategy_index' = strategy_index + 1
                  /\ UNCHANGED <<pc, last_error, page_calls>>
    /\ UNCHANGED <<entry, parserVars, cacheVars, textVars, action, raised, suiteVars, stepVars>>

\* One iteration of a loop over selectors (wait_for_selector, then the
\* element's fill, select_option, check or uncheck).
SelectorLoop(type, strategies) ==
    /\ pc = "resolving"
    /\ action.type \in type
    /\ strategy_index < Len(strategies)
    /\ attempted_selectors' =
          Append(attempted_selectors, strategies[strategy_index + 1].selector)
    /\ TrySelector(strategies[strategy_index + 1].selector)
    /\ UNCHANGED <<entry, parserVars, cacheVars, textVars, action, raised, suiteVars, stepVars>>

Type == SelectorLoop({"type", "fill"}, TypeStrategies(action.target))

\* _select: the loop over the select element's selectors, then the option.
Select ==
    SelectorLoop({"select"}, SelectStrategies(action.target, action.value))

Check == SelectorLoop({"check"}, CheckStrategies(action.target))

Uncheck == SelectorLoop({"uncheck"}, UncheckStrategies(action.target))

\* Every strategy was used up: ActionExecutionError with the attempted
\* selectors and the last error.
RaiseActionExecutionError ==
    /\ pc = "resolving"
    /\ strategy_index = Len(Strategies(action))
    /\ raised' = [attempted_selectors |-> attempted_selectors,
                  original_error |-> last_error]
    /\ pc' = "resolve_raised"
    /\ UNCHANGED <<entry, parserVars, cacheVars, textVars, action, strategy_index, attempted_selectors,
                   last_error, page_calls, suiteVars, stepVars>>

ResolverActions ==
    {[type |-> t, target |-> g,
      value |-> IF t \in {"type", "fill", "select"} THEN Value ELSE NoValue] :
        t \in {"click", "type", "fill", "select", "check", "uncheck"},
        g \in Targets}

InitResolver ==
    /\ entry = "resolve"
    /\ pc = "resolving"
    /\ SuiteIdle
    /\ handles = Resources
    /\ live = Resources
    /\ StepIdle
    /\ action \in ResolverActions
    /\ strategy_index = 0
    /\ attempted_selectors = <<>>
    /\ last_error = None
    /\ raised = None
    /\ page_calls = <<>>
    /\ ParserIdle
    /\ CacheIdle
    /\ TextIdle

NextResolver ==
    \/ Click
    \/ Type
    \/ Select
    \/ Check
    \/ Uncheck
    \/ RaiseActionExecutionError

SpecResolver == InitResolver /\ [][NextResolver]_vars

(***************************************************************************)
(* RequirementParser.parse_file and TestSuite.__post_init__.               *)
(* A document is what the regular expressions of the parser find in it:    *)
(* the verifications of its "For all pages:" bullets, and its step markers *)
(* (a line starting with digits and a dot) in document order, each with    *)
(* the description and the verifications its text yields.                  *)
(***************************************************************************)
Verification(text) == [text |-> text, severity |-> MAJOR]

GlobalText(j) == <<"global requirement", j>>
OwnText == <<"requirement of the step">>

\* The lists of global requirements a document may carry.
GlobalLists ==
    {[j \in 1..m |-> Verification(GlobalText(j))] : m \in 0..MaxGlobals}

\* The text of a step: a plain step, a step with a verification of its own,
\* and a step whose first line is only a discourse marker ("First,"), whose
\* description _extract_description returns empty.
StepTexts ==
    {[description |-> "Open the page", verifications |-> <<>>],
     [description |-> "Open the page",
      verifications |-> <<Verification(OwnText)>>],
     [description |-> "", verifications |-> <<>>]}

\* A marker "0." is a step marker too.
Markers == [number : 0..MaxStepNumber, text : StepTexts]

Documents ==
    [globals : GlobalLists, markers : SeqsUpTo(Markers, MaxMarkers)]

\* sorted(): ascending, equal keys kept in their order.
RECURSIVE Sorted(_)
Sorted(numbers) ==
    IF numbers = <<>> THEN <<>>
    ELSE LET n == Len(numbers)
             head == Sorted(SubSeq(numbers, 1, n - 1))
             p == Cardinality({j \in 1..(n - 1) : head[j] <= numbers[n]})
         IN SubSeq(head, 1, p) \o <<numbers[n]>> \o SubSeq(head, p + 1, n - 1)

\* _extract_steps: the (number, text) pairs of the markers, sorted by
\* number; list.sort is stable.
RECURSIVE ExtractSteps(_)
ExtractSteps(markers) ==
    IF markers = <<>> THEN <<>>
    ELSE LET n == Len(markers)
             head == ExtractSteps(SubSeq(markers, 1, n - 1))
             p == Cardinality({j \in 1..(n - 1) :
                                  head[j].number <= markers[n].number})
         IN SubSeq(head, 1, p) \o <<markers[n]>> \o SubSeq(head, p + 1, n - 1)

TestStep(step_number, description, verifications) ==
    [step_number |-> step_number, description |-> description,
     verifications |-> verifications]

\* TestStep.__post_init__ raises.
TestStepInvalid(step_number, description) ==
    \/ step_number < 1
    \/ step_number > MAX_STEP_NUMBER
    \/ description = ""

\* Mutant: _parse_step appends the global requirements after the step's own.
ParseStep_GlobalsLast(step_num, step_text, global_reqs) ==
    TestStep(step_num, step_text.description,
             step_text.verifications \o global_reqs)

\* _parse_step, when TestStep accepts its arguments.
ParseStep(step_num, step_text, global_reqs) ==
    TestStep(step_num, step_text.description,
             IF global_reqs # <<>>
             THEN global_reqs \o step_text.verifications
             ELSE step_text.verifications)

StepNumbers(ss) == [j \in 1..Len(ss) |-> ss[j].step_number]

HasDuplicates(numbers) ==
    Len(numbers) # Cardinality({numbers[j] : j \in 1..Len(numbers)})

\* Mutant: TestSuite.__post_init__ without its duplicate check.
TestSuiteError_NoDuplicateCheck(ss) ==
    IF ss = <<>> THEN "Test suite must have at least one step"
    ELSE IF StepNumbers(ss) # Sorted(StepNumbers(ss))
    THEN "Step numbers must be sequential starting from 1"
    ELSE None

\* Mutant: TestSuite.__post_init__ compares the numbers with 1..n.
TestSuiteError_Contiguous(ss) ==
    IF ss = <<>> THEN "Test suite must have at least one step"
    ELSE IF HasDuplicates(StepNumbers(ss))
    THEN "Step numbers must be unique"
    ELSE IF StepNumbers(ss) # [j \in 1..Len(ss) |-> j]
    THEN "Step numbers must be sequential starting from 1"
    ELSE None

\* TestSuite.__post_init__ on its steps: the message of the ValueError it
\* raises, or None.
TestSuiteError(ss) ==
    IF ss = <<>> THEN "Test suite must have at least one step"
    ELSE IF HasDuplicates(StepNumbers(ss))
    THEN "Step numbers must be unique"
    ELSE IF StepNumbers(ss) # Sorted(StepNumbers(ss))
    THEN "Step numbers must be sequential starting from 1"
    ELSE None

ValueError(message, step_num) ==
    [type |-> "ValueError", message |-> message, step_num |-> step_num]

\* parse_file up to its loop: the global requirements and the sorted steps.
ParseFileExtract ==
    /\ pc = "parse_file"
    /\ ExtractSteps(document.markers) # <<>>
    /\ global_requirements' = document.globals
    /\ steps' = ExtractSteps(document.markers)
    /\ pc' = "parse_steps"
    /\ UNCHANGED <<entry, document, test_steps, suite, parse_error, missing,
                   suiteVars, stepVars, resolverVars,
                   cacheVars, textVars>>

\* parse_file finds no step marker.
ParseFileNoSteps ==
    /\ pc = "parse_file"
    /\ ExtractSteps(document.markers) = <<>>
    /\ global_requirements' = document.globals
    /\ parse_error' = ValueError("No test steps found", -1)
    /\ pc' = "parse_raised"
    /\ UNCHANGED <<entry, document, steps, test_steps, suite, missing,
                   suiteVars, stepVars, resolverVars,
                   cacheVars, textVars>>

\* Mutant: a step that cannot be built is skipped.
ParseFileStepError_Skip ==
    /\ pc = "parse_steps"
    /\ LET n == Len(test_steps) + 1
       IN /\ TestStepInvalid(steps[n].number, steps[n].text.description)
          /\ steps' = SubSeq(steps, 1, n - 1) \o SubSeq(steps, n + 1, Len(steps))
          /\ pc' = IF n = Len(steps) THEN "construct" ELSE "parse_steps"
    /\ UNCHANGED <<entry, document, global_requirements, test_steps, suite,
                   parse_error, missing, suiteVars, stepVars, resolverVars,
                   cacheVars, textVars>>

\* One iteration of the loop of parse_file: _parse_step raises, and the
\* ValueError that names the step leaves parse_file.
ParseFileStepError ==
    /\ pc = "parse_steps"
    /\ LET n == Len(test_steps) + 1
       IN /\ TestStepInvalid(steps[n].number, steps[n].text.description)
          /\ parse_error' = ValueError("Failed to parse step", steps[n].number)
    /\ pc' = "parse_raised"
    /\ UNCHANGED <<entry, document, global_requirements, steps, test_steps,
                   suite, missing, suiteVars, stepVars, resolverVars,
                   cacheVars, textVars>>

\* One iteration of the loop of parse_file: _parse_step returns a TestStep.
ParseFileStep ==
    /\ pc = "parse_steps"
    /\ LET n == Len(test_steps) + 1
       IN /\ ~TestStepInvalid(steps[n].number, steps[n].text.description)
          /\ test_steps' =
                Append(test_steps,
                       ParseStep(steps[n].number, steps[n].text,
                                 global_requirements))
          /\ pc' = IF n = Len(steps) THEN "construct" ELSE "parse_steps"
    /\ UNCHANGED <<entry, document, global_requirements, steps, suite,
                   parse_error, missing, suiteVars, stepVars, resolverVars,
                   cacheVars, textVars>>

\* TestSuite(...) is constructed.
ConstructTestSuite ==
    /\ pc = "construct"
    /\ TestSuiteError(test_steps) = None
    /\ suite' = [steps |-> test_steps,
                 global_requirements |-> global_requirements]
    /\ pc' = IF entry = "parse_file" THEN "validate" ELSE "constructed"
    /\ UNCHANGED <<entry, document, global_requirements, steps, test_steps,
                   parse_error, missing, suiteVars, stepVars, resolverVars,
                   cacheVars, textVars>>

\* TestSuite.__post_init__ raises; parse_file has no handler for it.
ConstructTestSuiteError ==
    /\ pc = "construct"
    /\ TestSuiteError(test_steps) # None
    /\ parse_error' = ValueError(TestSuiteError(test_steps), -1)
    /\ pc' = IF entry = "parse_file" THEN "parse_raised"
             ELSE "construct_raised"
    /\ UNCHANGED <<entry, document, global_requirements, steps, test_steps,
                   suite, missing, suiteVars, stepVars, resolverVars,
                   cacheVars, textVars>>

\* _validate_suite, then parse_file returns the suite: duplicates raise, the
\* numbers missing between the first and the last step are logged.
ValidateSuite ==
    /\ pc = "validate"
    /\ LET step_numbers == StepNumbers(suite.steps)
           sorted_numbers == Sorted(step_numbers)
       IN IF suite.steps = <<>> \/ HasDuplicates(step_numbers)
          THEN /\ parse_error' = ValueError("Duplicate step numbers found", -1)
               /\ pc' = "parse_raised"
               /\ UNCHANGED missing
          ELSE /\ missing' =
                     {n \in sorted_numbers[1]..sorted_numbers[Len(sorted_numbers)] :
                         \A j \in 1..Len(sorted_numbers) : sorted_numbers[j] # n}
               /\ pc' = "parsed"
               /\ UNCHANGED parse_error
    /\ UNCHANGED <<entry, document, global_requirements, steps, test_steps,
                   suite, suiteVars, stepVars, resolverVars,
                   cacheVars, textVars>>

ExecutorIdle ==
    /\ SuiteIdle
    /\ handles = {}
    /\ live = {}
    /\ StepIdle
    /\ ResolverIdle

InitParser ==
    /\ entry = "parse_file"
    /\ pc = "parse_file"
    /\ document \in Documents
    /\ global_requirements = <<>>
    /\ steps = <<>>
    /\ test_steps = <<>>
    /\ suite = NoSuite
    /\ parse_error = NoError
    /\ missing = {}
    /\ ExecutorIdle
    /\ CacheIdle
    /\ TextIdle

NextParser ==
    \/ ParseFileExtract
    \/ ParseFileNoSteps
    \/ ParseFileStep
    \/ ParseFileStepError
    \/ ConstructTestSuite
    \/ ConstructTestSuiteError
    \/ ValidateSuite

SpecParser == InitParser /\ [][NextParser]_vars

\* TestSuite constructed by any caller, from valid TestSteps in any order.
InitSuite ==
    /\ entry = "TestSuite"
    /\ pc = "construct"
    /\ document = NoDocument
    /\ global_requirements \in GlobalLists
    /\ steps = <<>>
    /\ test_steps \in
          SeqsUpTo({TestStep(n, "Open the page", <<>>) : n \in 1..MaxStepNumber},
                   MaxMarkers)
    /\ suite = NoSuite
    /\ parse_error = NoError
    /\ missing = {}
    /\ ExecutorIdle
    /\ CacheIdle
    /\ TextIdle

NextSuite ==
    \/ ConstructTestSuite
    \/ ConstructTestSuiteError

SpecSuite == InitSuite /\ [][NextSuite]_vars

(***************************************************************************)
(* ResponseCache (adapters/base.py).  The constructor accepts only         *)
(* max_size >= 1 and ttl_seconds >= 1.  A key stands for one combination   *)
(* of prompt and hashes: _generate_key is SHA-256, taken as injective.     *)
(* The dict is the list of its entries in insertion order, which is the    *)
(* order min() and the comprehension of cleanup_expired iterate in.  The   *)
(* clock only moves between calls.  hits and misses are unbounded in the   *)
(* code; the lookups between two clear calls are capped at MaxLookups.     *)
(***************************************************************************)
MaxCacheSize == 2
MaxKeys == 3
MaxTtl == 1
MaxTime == 2
MaxLookups == 2

Keys == 1..MaxKeys
Responses == {"r1", "r2"}

Entry(key, cached_time, response) ==
    [key |-> key, cached_time |-> cached_time, response |-> response]

\* The position of key in the dict, 0 when "key not in self.cache".
KeyIndex(entries, key) ==
    IF \E j \in 1..Len(entries) : entries[j].key = key
    THEN CHOOSE j \in 1..Len(entries) : entries[j].key = key
    ELSE 0

\* del self.cache[key]
Delete(entries, j) ==
    SubSeq(entries, 1, j - 1) \o SubSeq(entries, j + 1, Len(entries))

\* min(self.cache.keys(), key=lambda k: self.cache[k][0]): the first of the
\* entries with the least cached_time.
Oldest(entries) ==
    CHOOSE j \in 1..Len(entries) :
        /\ \A m \in 1..Len(entries) :
              entries[j].cached_time <= entries[m].cached_time
        /\ \A m \in 1..(j - 1) :
              entries[m].cached_time > entries[j].cached_time

\* age > self.ttl_seconds
Expired(cached) == now - cached.cached_time > ttl_seconds

\* self.cache[key] = (datetime.now(), response): a key already present keeps
\* its place in the dict.
Store(entries, key, response) ==
    IF KeyIndex(entries, key) = 0
    THEN Append(entries, Entry(key, now, response))
    ELSE [entries EXCEPT ![KeyIndex(entries, key)] = Entry(key, now, response)]

Set_EvictsWhenOver(key, response) ==
    /\ pc = "cache"
    /\ LET room == IF Len(cache) > max_size
                   THEN Delete(cache, Oldest(cache))
                   ELSE cache
       IN cache' = Store(room, key, response)
    /\ evicted' = (Len(cache) > max_size)
    /\ got' = None
    /\ UNCHANGED <<entry, pc, max_size, ttl_seconds, hits, misses, now,
                   suiteVars, stepVars, resolverVars, parserVars, textVars>>

\* set with a valid prompt and response.
Set(key, response) ==
    /\ pc = "cache"
    /\ LET room == IF Len(cache) >= max_size
                   THEN Delete(cache, Oldest(cache))
                   ELSE cache
       IN cache' = Store(room, key, response)
    /\ evicted' = (Len(cache) >= max_size)
    /\ got' = None
    /\ UNCHANGED <<entry, pc, max_size, ttl_seconds, hits, misses, now,
                   suiteVars, stepVars, resolverVars, parserVars, textVars>>

\* set with an empty prompt or a response that is no AIResponse.
SetInvalid ==
    /\ pc = "cache"
    /\ got' = "ValueError"
    /\ evicted' = FALSE
    /\ UNCHANGED <<entry, pc, cache, max_size, ttl_seconds, hits, misses, now,
                   suiteVars, stepVars, resolverVars, parserVars, textVars>>

\* get with an empty prompt.
GetInvalid ==
    /\ pc = "cache"
    /\ hits + misses < MaxLookups
    /\ misses' = misses + 1
    /\ got' = None
    /\ evicted' = FALSE
    /\ UNCHANGED <<entry, pc, cache, max_size, ttl_seconds, hits, now,
                   suiteVars, stepVars, resolverVars, parserVars, textVars>>

GetMiss(key) ==
    /\ pc = "cache"
    /\ hits + misses < MaxLookups
    /\ KeyIndex(cache, key) = 0
    /\ misses' = misses + 1
    /\ got' = None
    /\ evicted' = FALSE
    /\ UNCHANGED <<entry, pc, cache, max_size, ttl_seconds, hits, now,
                   suiteVars, stepVars, resolverVars, parserVars, textVars>>

GetExpired(key) ==
    /\ pc = "cache"
    /\ hits + misses < MaxLookups
    /\ KeyIndex(cache, key) # 0
    /\ Expired(cache[KeyIndex(cache, key)])
    /\ cache' = Delete(cache, KeyIndex(cache, key))
    /\ misses' = misses + 1
    /\ got' = None
    /\ evicted' = FALSE
    /\ UNCHANGED <<entry, pc, max_size, ttl_seconds, hits, now,
                   suiteVars, stepVars, resolverVars, parserVars, textVars>>

GetHit(key) ==
    /\ pc = "cache"
    /\ hits + misses < MaxLookups
    /\ KeyIndex(cache, key) # 0
    /\ ~Expired(cache[KeyIndex(cache, key)])
    /\ hits' = hits + 1
    /\ got' = cache[KeyIndex(cache, key)].response
    /\ evicted' = FALSE
    /\ UNCHANGED <<entry, pc, cache, max_size, ttl_seconds, misses, now,
                   suiteVars, stepVars, resolverVars, parserVars, textVars>>

CleanupExpired ==
    /\ pc = "cache"
    /\ cache' = SelectSeq(cache, LAMBDA e : ~Expired(e))
    /\ got' = None
    /\ evicted' = FALSE
    /\ UNCHANGED <<entry, pc, max_size, ttl_seconds, hits, misses, now,
                   suiteVars, stepVars, resolverVars, parserVars, textVars>>

Clear ==
    /\ pc = "cache"
    /\ cache' = <<>>
    /\ hits' = 0
    /\ misses' = 0
    /\ got' = None
    /\ evicted' = FALSE
    /\ UNCHANGED <<entry, pc, max_size, ttl_seconds, now,
                   suiteVars, stepVars, resolverVars, parserVars, textVars>>

\* A second passes between two calls.
Tick ==
    /\ pc = "cache"
    /\ now < MaxTime
    /\ now' = now + 1
    /\ UNCHANGED <<entry, pc, cache, max_size, ttl_seconds, hits, misses, got,
                   evicted,
                   suiteVars, stepVars, resolverVars, parserVars, textVars>>

InitCache ==
    /\ entry = "ResponseCache"
    /\ pc = "cache"
    /\ cache = <<>>
    /\ max_size \in 1..MaxCacheSize
    /\ ttl_seconds \in 1..MaxTtl
    /\ hits = 0
    /\ misses = 0
    /\ now = 0
    /\ got = None
    /\ evicted = FALSE
    /\ ExecutorIdle
    /\ ParserIdle
    /\ TextIdle

NextCache ==
    \/ \E key \in Keys, response \in Responses : Set(key, response)
    \/ SetInvalid
    \/ GetInvalid
    \/ \E key \in Keys : GetMiss(key)
    \/ \E key \in Keys : GetExpired(key)
    \/ \E key \in Keys : GetHit(key)
    \/ CleanupExpired
    \/ Clear
    \/ Tick

SpecCache == InitCache /\ [][NextCache]_vars

(***************************************************************************)
(* _parse_step on one step's text (parser/parser.py).  A sentence is the   *)
(* list of its words; the words of a sentence are joined by one space,     *)
(* except the word ".", which stands for a period written without spaces   *)
(* around it.  sentences is what _split_into_sentences returns for the     *)
(* step text: no sentence holds a period followed by whitespace, and each  *)
(* has more than three characters.  The patterns search substrings; no     *)
(* word of Sentences or Bullets holds a trigger or a keyword inside        *)
(* another word, so a trigger or keyword occurs exactly where its words    *)
(* occur.                                                                  *)
(***************************************************************************)
MaxSentences == 3
MaxBullets == 1

CLICK == "click"
NAVIGATE == "navigate"

Sentences ==
    { <<"Go", "to", "the", "homepage", ".">>,
      <<"Click", "on", "'Login'", ".">>,
      <<"Verify", "that", "the", "login", "form", "is", "visible", ".">>,
      <<"Make", "sure", "the", "logo", "is", "visible">>,
      <<"Make", "sure", "the", "Logo", "is", "visible", ".">>,
      <<"Make", "sure", "to", "verify", "the", "logo", "is", "shown", ".">>,
      <<"Make", "sure", "ok", ".", "verify", "the", "page">>,
      <<"Verify", "that", "the", "tooltip", "is", "nice", "to", "have", ".">>,
      <<"Verify", "that", "the", "page", "should", "be", "critical", ".">> }

\* The lines of the "For all pages:" section, without their bullet markers.
Bullets ==
    { <<"Make", "sure", "the", "logo", "is", "visible">>,
      <<"Every", "page", "must", "have", "a", "footer">> }

\* str.lower() of a word: the words written with a capital.
Lower(word) ==
    CASE word = "Go" -> "go"
      [] word = "Click" -> "click"
      [] word = "Verify" -> "verify"
      [] word = "Make" -> "make"
      [] word = "Every" -> "every"
      [] word = "Logo" -> "logo"
      [] word = "'Login'" -> "'login'"
      [] OTHER -> word

LowerText(words) == [j \in 1..Len(words) |-> Lower(words[j])]

\* The words of fewer than three characters.  Two words joined by a space
\* have at least three.
ShortWords == {".", "a", "ok", "Go", "to", "on", "is", "be"}

\* not verification_text or len(verification_text) < 3
TooShort(words) ==
    \/ words = <<>>
    \/ Len(words) = 1 /\ words[1] \in ShortWords

\* The trigger phrases of VERIFICATION_PATTERNS, in the order of the list.
VERIFICATION_PATTERNS ==
    << <<"make", "sure">>, <<"verify">>, <<"check">>, <<"confirm">>,
       <<"ensure">> >>

\* The phrase occurs in the sentence at position p (re.IGNORECASE) and a
\* space and one more character follow it.
PhraseAt(sentence, p, phrase) ==
    /\ p + Len(phrase) <= Len(sentence)
    /\ \A m \in 1..Len(phrase) : Lower(sentence[p + m - 1]) = phrase[m]
    /\ sentence[p + Len(phrase)] # "."

\* pattern.search: the position after the leftmost occurrence of the
\* phrase, 0 when the pattern does not match.
Search(sentence, phrase) ==
    IF \E p \in 1..Len(sentence) : PhraseAt(sentence, p, phrase)
    THEN Len(phrase) +
         CHOOSE p \in 1..Len(sentence) :
            /\ PhraseAt(sentence, p, phrase)
            /\ \A q \in 1..(p - 1) : ~PhraseAt(sentence, q, phrase)
    ELSE 0

\* An optional group such as (?:that )?: it takes the word at q when that
\* word is followed by a space and one more character.
SkipOptional(sentence, q, word) ==
    IF PhraseAt(sentence, q, <<word>>) THEN q + 1 ELSE q

\* (.+?)(?:\.|$) from position q: the words up to the next period or the
\* end of the sentence.
UpToPeriod(sentence, q) ==
    LET stops == {e \in (q + 1)..Len(sentence) : sentence[e] = "."}
        stop == IF stops = {} THEN Len(sentence) + 1
                ELSE CHOOSE e \in stops : \A f \in stops : e <= f
    IN SubSeq(sentence, q, stop - 1)

\* match.group(1).strip() of verification pattern n, <<>> when the pattern
\* does not match.
MatchedText(sentence, n) ==
    LET q == Search(sentence, VERIFICATION_PATTERNS[n])
    IN IF q = 0 THEN <<>>
       ELSE UpToPeriod(sentence, SkipOptional(sentence, q, "that"))

Matches(sentence, n) == Search(sentence, VERIFICATION_PATTERNS[n]) # 0

\* The first pattern of the list that matches the sentence, 0 for none.
FirstMatch(sentence) ==
    IF \E n \in 1..Len(VERIFICATION_PATTERNS) : Matches(sentence, n)
    THEN CHOOSE n \in 1..Len(VERIFICATION_PATTERNS) :
            /\ Matches(sentence, n)
            /\ \A m \in 1..(n - 1) : ~Matches(sentence, m)
    ELSE 0

\* A match the loop over the patterns does not pass over with continue.
Accepted(sentence, n, seen) ==
    /\ Matches(sentence, n)
    /\ ~TooShort(MatchedText(sentence, n))
    /\ LowerText(MatchedText(sentence, n)) \notin seen

\* The pattern whose match the loop appends and breaks on, 0 for none.
UsedPattern(sentence, seen) ==
    IF \E n \in 1..Len(VERIFICATION_PATTERNS) : Accepted(sentence, n, seen)
    THEN CHOOSE n \in 1..Len(VERIFICATION_PATTERNS) :
            /\ Accepted(sentence, n, seen)
            /\ \A m \in 1..(n - 1) : ~Accepted(sentence, m, seen)
    ELSE 0

\* keyword in sentence_lower
Contains(sentence, keyword) ==
    \E p \in 1..Len(sentence) :
        /\ p + Len(keyword) - 1 <= Len(sentence)
        /\ \A m \in 1..Len(keyword) : Lower(sentence[p + m - 1]) = keyword[m]

CriticalKeywords == {<<"critical">>, <<"must">>, <<"required">>, <<"has", "to">>}
MinorKeywords == {<<"should">>, <<"preferably">>, <<"nice", "to", "have">>}

SentenceSeverity_MinorFirst(sentence) ==
    IF \E w \in MinorKeywords : Contains(sentence, w) THEN MINOR
    ELSE IF \E w \in CriticalKeywords : Contains(sentence, w) THEN CRITICAL
    ELSE MAJOR

\* The severity _extract_verifications gives a verification of the sentence.
SentenceSeverity(sentence) ==
    IF \E w \in CriticalKeywords : Contains(sentence, w) THEN CRITICAL
    ELSE IF \E w \in MinorKeywords : Contains(sentence, w) THEN MINOR
    ELSE MAJOR

ExtractedVerification(text, severity, description) ==
    [text |-> text, severity |-> severity, description |-> description]

\* The patterns of ACTION_PATTERNS for CLICK and NAVIGATE, in the order of
\* the dict and of its lists: the trigger phrase, the optional words after
\* it, and whether the target ends at whitespace or only at a period.  A
\* pattern of TYPE, SELECT, CHECK, UNCHECK or FILL needs one of the words
\* type, enter, select, choose, check, uncheck, fill, which no sentence of
\* Sentences holds.
ACTION_PATTERNS ==
    << [type |-> CLICK, phrase |-> <<"click">>, optional |-> <<"on", "the">>,
        one_word |-> TRUE],
       [type |-> CLICK, phrase |-> <<"click", "on">>, optional |-> <<>>,
        one_word |-> TRUE],
       [type |-> NAVIGATE, phrase |-> <<"go", "to">>, optional |-> <<"the">>,
        one_word |-> FALSE],
       [type |-> NAVIGATE, phrase |-> <<"navigate", "to">>,
        optional |-> <<"the">>, one_word |-> FALSE] >>

\* ["\']?([^"\']+?)["\']?: a word without the quotation marks around it.
Unquote(word) == IF word = "'Login'" THEN "Login" ELSE word

RECURSIVE SkipOptionals(_, _, _)
SkipOptionals(sentence, q, optional) ==
    IF optional = <<>> THEN q
    ELSE SkipOptionals(sentence, SkipOptional(sentence, q, Head(optional)),
                       Tail(optional))

\* match.group(1).strip() of an action pattern that matches at q.  No
\* sentence has a quotation mark after "Go to".
ActionTarget(sentence, q, pattern) ==
    LET start == SkipOptionals(sentence, q, pattern.optional)
    IN IF pattern.one_word THEN <<Unquote(sentence[start])>>
       ELSE UpToPeriod(sentence, start)

Action(type, target, description) ==
    [type |-> type, target |-> target, value |-> None,
     description |-> description]

NoActions == [actions |-> <<>>, seen_actions |-> {}, extracted_types |-> {}]

\* The loop over ACTION_PATTERNS for one sentence, from pattern n on.
RECURSIVE SentenceActions(_, _, _)
SentenceActions(sentence, n, acc) ==
    IF n > Len(ACTION_PATTERNS) THEN acc
    ELSE LET pattern == ACTION_PATTERNS[n]
             q == Search(sentence, pattern.phrase)
             target == ActionTarget(sentence, q, pattern)
             action_key == <<pattern.type, LowerText(target)>>
         IN IF \/ pattern.type \in acc.extracted_types
               \/ q = 0
               \/ action_key \in acc.seen_actions
            THEN SentenceActions(sentence, n + 1, acc)
            ELSE SentenceActions(sentence, n + 1,
                    [actions |-> Append(acc.actions,
                                        Action(pattern.type, target, sentence)),
                     seen_actions |-> acc.seen_actions \cup {action_key},
                     extracted_types |->
                         acc.extracted_types \cup {pattern.type}])

RECURSIVE ActionsFrom(_, _)
ActionsFrom(text, acc) ==
    IF text = <<>> THEN acc.actions
    ELSE ActionsFrom(Tail(text),
                     SentenceActions(Head(text), 1,
                                     [acc EXCEPT !.extracted_types = {}]))

\* _extract_actions
ExtractActions(text) == ActionsFrom(text, NoActions)

\* The keywords that make a line of the section a requirement when no
\* verification pattern yields one.
RequirementKeywords ==
    {<<"make", "sure">>, <<"verify">>, <<"check">>, <<"confirm">>,
     <<"ensure">>, <<"must">>, <<"need">>, <<"should">>, <<"require">>,
     <<"has", "to">>}

LineSeverity(line) ==
    IF \E w \in CriticalKeywords : Contains(line, w) THEN CRITICAL
    ELSE IF \E w \in {<<"should">>, <<"preferably">>} : Contains(line, w)
         THEN MINOR
    ELSE MAJOR

\* What one line of the section adds: _extract_verifications(line), which
\* starts with no seen text, or else the whole line.
LineRequirements(line) ==
    IF UsedPattern(line, {}) # 0
    THEN <<ExtractedVerification(MatchedText(line, UsedPattern(line, {})),
                                 SentenceSeverity(line), line)>>
    ELSE IF \E w \in RequirementKeywords : Contains(line, w)
         THEN <<ExtractedVerification(line, LineSeverity(line), line)>>
    ELSE <<>>

\* _extract_global_requirements
RECURSIVE ExtractGlobalRequirements(_)
ExtractGlobalRequirements(lines) ==
    IF lines = <<>> THEN <<>>
    ELSE LineRequirements(Head(lines)) \o ExtractGlobalRequirements(Tail(lines))

\* One turn of the loop over the sentences in _extract_verifications: a
\* pattern yields a verification.
ExtractVerification ==
    /\ pc = "extract_verifications"
    /\ Len(matched) < Len(sentences)
    /\ LET sentence == sentences[Len(matched) + 1]
           n == UsedPattern(sentence, seen_texts)
       IN /\ n # 0
          /\ step_verifications' =
                Append(step_verifications,
                       ExtractedVerification(MatchedText(sentence, n),
                                             SentenceSeverity(sentence),
                                             sentence))
          /\ seen_texts' = seen_texts \cup {LowerText(MatchedText(sentence, n))}
          /\ matched' = Append(matched, [first |-> FirstMatch(sentence),
                                         used |-> n])
    /\ UNCHANGED <<entry, pc, global_section, sentences, step_actions,
                   parsed_step, suiteVars, stepVars, resolverVars, parserVars,
                   cacheVars>>

\* One turn of that loop: no pattern yields a verification.
NoVerification ==
    /\ pc = "extract_verifications"
    /\ Len(matched) < Len(sentences)
    /\ LET sentence == sentences[Len(matched) + 1]
       IN /\ UsedPattern(sentence, seen_texts) = 0
          /\ matched' = Append(matched, [first |-> FirstMatch(sentence),
                                         used |-> 0])
    /\ UNCHANGED <<entry, pc, global_section, sentences, step_verifications,
                   seen_texts, step_actions, parsed_step, suiteVars, stepVars,
                   resolverVars, parserVars, cacheVars>>

\* _parse_step calls _extract_actions on the step text.
ExtractStepActions ==
    /\ pc = "extract_verifications"
    /\ Len(matched) = Len(sentences)
    /\ step_actions' = ExtractActions(sentences)
    /\ pc' = "extract_actions"
    /\ UNCHANGED <<entry, global_section, sentences, step_verifications,
                   seen_texts, matched, parsed_step, suiteVars, stepVars,
                   resolverVars, parserVars, cacheVars>>

ReturnTestStep_GlobalsLast ==
    /\ pc = "extract_actions"
    /\ parsed_step' =
          [verifications |->
              step_verifications \o ExtractGlobalRequirements(global_section),
           actions |-> step_actions,
           returned |-> TRUE]
    /\ pc' = "returned"
    /\ UNCHANGED <<entry, global_section, sentences, step_verifications,
                   seen_texts, matched, step_actions, suiteVars, stepVars,
                   resolverVars, parserVars, cacheVars>>

\* _parse_step returns the TestStep: the global requirements parse_file
\* extracted from the section, then the step's own verifications.
ReturnTestStep ==
    /\ pc = "extract_actions"
    /\ parsed_step' =
          [verifications |->
              ExtractGlobalRequirements(global_section) \o step_verifications,
           actions |-> step_actions,
           returned |-> TRUE]
    /\ pc' = "returned"
    /\ UNCHANGED <<entry, global_section, sentences, step_verifications,
                   seen_texts, matched, step_actions, suiteVars, stepVars,
                   resolverVars, parserVars, cacheVars>>

InitText ==
    /\ entry = "_parse_step"
    /\ pc = "extract_verifications"
    /\ global_section \in SeqsUpTo(Bullets, MaxBullets)
    /\ sentences \in SeqsUpTo(Sentences, MaxSentences) \ {<<>>}
    /\ step_verifications = <<>>
    /\ seen_texts = {}
    /\ matched = <<>>
    /\ step_actions = <<>>
    /\ parsed_step = NoStep
    /\ ExecutorIdle
    /\ ParserIdle
    /\ CacheIdle

NextText ==
    \/ ExtractVerification
    \/ NoVerification
    \/ ExtractStepActions
    \/ ReturnTestStep

SpecText == InitText /\ [][NextText]_vars

(***************************************************************************)
(* Properties.                                                             *)
(***************************************************************************)
AnyFailed(vrs) == \E j \in 1..Len(vrs) : ~vrs[j].passed

HasMinorIssue(vr) == \E m \in 1..Len(vr.issues) : vr.issues[m].severity = "minor"

\* C1 (SpecStep): failure dominance. Whenever the list of verification
\* results holds a result with passed = FALSE, _calculate_step_status gives
\* FAILED for it, and so does the StepResult execute_step returns, whatever
\* the confidences and issues of the results.
C1_FailureDominance ==
    AnyFailed(verification_results) =>
        /\ CalculateStepStatus(verification_results) = "failed"
        /\ (pc = "returned" => ret.status = "failed")

\* A failed result of confidence 95 without issues next to a passed one.
C1_Witness ==
    /\ pc = "returned"
    /\ Len(verification_results) = 2
    /\ ~verification_results[1].passed
    /\ verification_results[1].confidence = 95
    /\ verification_results[1].issues = <<>>
    /\ verification_results[2].passed
    /\ verification_results[2].confidence = 95
    /\ ret.status = "failed"

\* C2 (SpecStep): for a non-empty list in which every result passed, the
\* status is WARNING if some result has confidence < 70 or an issue of
\* severity MINOR, and PASSED otherwise (so at confidence 70 exactly).
C2_WarningOrPassed ==
    (verification_results # <<>> /\ ~AnyFailed(verification_results)) =>
        LET caution == \E j \in 1..Len(verification_results) :
                          \/ verification_results[j].confidence < 70
                          \/ HasMinorIssue(verification_results[j])
            expected == IF caution THEN "warning" ELSE "passed"
        IN  /\ CalculateStepStatus(verification_results) = expected
            /\ (pc = "returned" => ret.status = expected)

\* Confidence exactly 70, a CRITICAL issue on a passed result, no MINOR one.
C2_Witness ==
    /\ pc = "returned"
    /\ Len(verification_results) = 2
    /\ verification_results[1].passed
    /\ verification_results[1].confidence = 70
    /\ verification_results[1].issues = <<Issue("critical", VerificationText(1))>>
    /\ verification_results[2].passed
    /\ verification_results[2].issues = <<>>
    /\ ret.status = "passed"

\* C3 as stated (SpecStep): a step without verifications whose actions all
\* succeed gets PENDING.
C3_Original ==
    (pc = "returned" /\ step.verifications = <<>> /\ calls.failed_action = 0)
        => ret.status = "pending"

\* C3 amended (SpecStep): the empty list gives PENDING, and a step without
\* verifications whose actions all succeed and whose page state is captured
\* gets PENDING, with no error message.
C3_NoVerificationsIsPending ==
    /\ CalculateStepStatus(<<>>) = "pending"
    /\ (/\ pc = "returned"
        /\ step.verifications = <<>>
        /\ calls.failed_action = 0
        /\ ~calls.capture_failed)
          => (ret.status = "pending" /\ ret.error_message = None)

C3_Witness ==
    /\ pc = "returned"
    /\ step.verifications = <<>>
    /\ Len(step.actions) = 2
    /\ calls.action = 2
    /\ calls.failed_action = 0
    /\ calls.capture = 1
    /\ ~calls.capture_failed
    /\ ret.status = "pending"

RECURSIVE C4_FailedIssues(_, _)
C4_FailedIssues(vrs, n) ==
    IF n = 0 THEN <<>>
    ELSE C4_FailedIssues(vrs, n - 1)
             \o (IF vrs[n].passed THEN <<>> ELSE vrs[n].issues)

C5_NeverRaises ==
    /\ pc \in {"actions", "verify", "returned"}
    /\ (calls.failed_action # 0 \/ calls.capture_failed) =>
          /\ pc = "returned"
          /\ ret.status = "failed"
          /\ ret.error_message # None
    /\ pc = "returned" =>
          /\ ret.step_number = step.step_number
          /\ ret.status \in StepStatus

C5_Witness ==
    /\ pc = "returned"
    /\ calls.capture_failed
    /\ calls.action = 2
    /\ ret.status = "failed"
    /\ ret.error_message = "RuntimeError: Failed to capture page state"

\* C6 (Spec): once the k-th action of a step has raised, the call has
\* returned FAILED with exactly k actions started, no state capture and no
\* AI call; and with stop_on_failure off the suite appends that result and
\* stays in the loop, which takes the next step when there is one.
C6_ActionFailureAbortsStepOnly ==
    /\ [](calls.failed_action # 0 =>
            /\ pc = "returned"
            /\ calls.action = calls.failed_action
            /\ calls.capture = 0
            /\ calls.ai = 0
            /\ ret.status = "failed")
    /\ [][(pc = "returned" /\ calls.failed_action # 0
             /\ ~config.stop_on_failure) =>
            (pc' = "steps" /\ results' = Append(results, ret)
               /\ teardowns' = 0)]_vars
    /\ [][(pc = "steps" /\ i < suite_len) =>
            (pc' = "actions" /\ i' = i + 1 /\ step'.step_number = i + 1)]_vars

\* Step 1 failed on an action and step 2 is being executed.
C6_Witness ==
    /\ pc = "actions"
    /\ i = 2
    /\ ~config.stop_on_failure
    /\ Len(results) = 1
    /\ results[1].status = "failed"
    /\ results[1].error_message = "ActionExecutionError"
    /\ calls.action = 1

\* C7 (SpecStep): when no action and no capture raised, the AI capability
\* has been called once per verification handled so far, in order; result j
\* is for verification j; a result whose AI call raised is the synthetic
\* one (passed = FALSE, confidence 0); and the returned StepResult has one
\* result per verification of the step.
C7_VerificationIsolation ==
    /\ pc \in {"verify", "returned"} /\ calls.failed_action = 0
          /\ ~calls.capture_failed =>
          /\ Len(verification_results) = calls.ai
          /\ \A j \in 1..Len(verification_results) :
                /\ verification_results[j].requirement = step.verifications[j]
                /\ j \in calls.ai_raised =>
                      /\ ~verification_results[j].passed
                      /\ verification_results[j].confidence = 0
    /\ pc = "returned" /\ calls.failed_action = 0 /\ ~calls.capture_failed =>
          /\ ret.verifications = verification_results
          /\ Len(ret.verifications) = Len(step.verifications)
          /\ calls.ai = Len(step.verifications)

\* The AI call of the first verification raised, the second was evaluated.
C7_Witness ==
    /\ pc = "returned"
    /\ calls.ai_raised = {1}
    /\ Len(ret.verifications) = 2
    /\ ret.verifications[1].ai_reasoning = "Verification error"
    /\ ret.verifications[2].passed
    /\ ret.verifications[2].ai_reasoning = "ai"

\* The selectors of the strategies that call the page, in strategy order.
C8_Called == SelectSeq(Strategies(action), LAMBDA s : s.calls_page)

\* C8 (SpecResolver): the page is called on the strategies' selectors in
\* their listed order, each call after the first only when the one before
\* it failed; the resolver has returned success exactly when the last call
\* succeeded, so no strategy is attempted after a success.
C8_OrderedFallback ==
    /\ Len(page_calls) <= Len(C8_Called)
    /\ \A j \in 1..Len(page_calls) :
          page_calls[j].selector = C8_Called[j].selector
    /\ \A j \in 1..(Len(page_calls) - 1) : page_calls[j].result # "ok"
    /\ (pc = "resolved") <=>
          (page_calls # <<>> /\ page_calls[Len(page_calls)].result = "ok")

\* A click resolved by its third strategy.
C8_Witness ==
    /\ pc = "resolved"
    /\ action.type = "click"
    /\ Len(page_calls) = 3
    /\ page_calls[3].selector = <<"a:has-text(\"{}\")", action.target>>

C9_StrategyCount(type) ==
    CASE type = "click" -> 8
      [] type \in {"type", "fill"} -> 7
      [] type = "select" -> 4
      [] type = "check" -> 6
      [] type = "uncheck" -> 3

\* C9 (SpecResolver): an ActionExecutionError raised after the strategies
\* are used up lists one selector per strategy of the action type, in
\* strategy order (8 for a click), never an empty list, and carries the
\* error of the last page call.
C9_ExhaustiveFailure ==
    pc = "resolve_raised" =>
        /\ Len(raised.attempted_selectors) = C9_StrategyCount(action.type)
        /\ Len(Strategies(action)) = C9_StrategyCount(action.type)
        /\ \A j \in 1..Len(raised.attempted_selectors) :
              raised.attempted_selectors[j] = Strategies(action)[j].selector
        /\ raised.attempted_selectors # <<>>
        /\ page_calls # <<>>
        /\ raised.original_error = page_calls[Len(page_calls)].result
        /\ raised.original_error \in PageErrors

\* Scenario E: a click on a plain text target that no strategy resolves.
C9_Witness ==
    /\ pc = "resolve_raised"
    /\ action.type = "click"
    /\ action.target = <<"L", "o", "g", "i", "n">>
    /\ Len(page_calls) = 6
    /\ Len(raised.attempted_selectors) = 8

\* C10 (Spec): with the session acquired, _teardown_browser has not run
\* while the suite is navigating or executing steps, and has run exactly
\* once when control has left execute_test_suite, by return (after the last
\* step or after an early stop) or by the RuntimeError of a failed
\* navigation.
C10_TeardownExactlyOnce ==
    /\ teardowns <= 1
    /\ pc \in {"navigate", "steps", "actions", "verify", "returned", "teardown"}
          => (teardowns = 0 /\ handles = Resources)
    /\ pc = "done" => teardowns = 1
    /\ (pc = "raised" /\ pending # "SetupError") => teardowns = 1

\* The base-URL navigation failed and the exception left after the teardown.
C10_Witness ==
    /\ pc = "raised"
    /\ nav_outcome = "error"
    /\ pending = "RuntimeError"
    /\ teardowns = 1
    /\ handles = {}

\* C11 (Spec): with stop_on_failure configured, only the last result can be
\* FAILED, and after a FAILED result the loop is left: no later step is
\* begun or given a result, so the results are those of steps 1..i, in
\* order, none of them SKIPPED; a result that is not FAILED (PENDING and
\* WARNING included) sends the loop on to the next step.
C11_StopOnFailure ==
    /\ [](/\ \A j \in 1..Len(results) :
              /\ results[j].step_number = j
              /\ results[j].status # SKIPPED
          /\ config.stop_on_failure =>
                /\ \A j \in 1..(Len(results) - 1) : results[j].status # FAILED
                /\ (Len(results) > 0 /\ results[Len(results)].status = FAILED)
                      => (pc \in {"teardown", "done"} /\ i = Len(results)))
    /\ [][(pc = "returned" /\ ret.status # FAILED) => pc' = "steps"]_vars
    /\ [][(pc = "returned" /\ ret.status = FAILED /\ config.stop_on_failure)
             => (pc' = "teardown" /\ results' = Append(results, ret))]_vars

\* A suite of two steps stopped after its first step, which FAILED.
C11_Witness ==
    /\ pc = "done"
    /\ config.stop_on_failure
    /\ suite_len = 2
    /\ Len(results) = 1
    /\ results[1].status = FAILED

\* C12 (Spec): the base-URL navigation ends once, before any step or result;
\* a step runs only after it, with the session open; the loop begins step
\* i + 1 only when the results of steps 1..i are appended, so every page and
\* AI call of a step is over before the next step begins; once the teardown
\* has started there is no navigation, no step and no page or AI call.
C12_ExecutionOrder ==
    /\ [](pc \in {"actions", "verify", "returned"} =>
             /\ nav_outcome \in {"ok", "timeout"}
             /\ step.step_number = i
             /\ Len(results) = i - 1
             /\ teardowns = 0)
    /\ [][nav_outcome' # nav_outcome =>
             (nav_outcome = None /\ pc = "navigate" /\ i = 0 /\ results = <<>>)]_vars
    /\ [][i' # i =>
             (/\ i' = i + 1
              /\ step'.step_number = i + 1
              /\ Len(results) = i
              /\ calls = NoCalls)]_vars
    /\ [][calls' # calls =>
             (\/ (pc \in {"actions", "verify"} /\ teardowns = 0
                                               /\ live = Resources)
              \/ calls' = NoCalls)]_vars
    /\ [][(pc \in {"teardown", "done", "raised"}) =>
             (/\ pc' \in {"done", "raised"}
              /\ calls' = calls
              /\ i' = i
              /\ results' = results
              /\ nav_outcome' = nav_outcome)]_vars

\* The second step has made its first page call after the first step's
\* result, with its AI verdict, was appended.
C12_Witness ==
    /\ pc = "actions"
    /\ i = 2
    /\ calls.action = 1
    /\ nav_outcome = "ok"
    /\ Len(results) = 1
    /\ results[1].status = PASSED
    /\ Len(results[1].verifications) = 1

\* C13 (Spec): a timeout of the base-URL navigation leaves the run in the
\* state a successful navigation leaves it in, but for the record of the
\* outcome: the step loop is entered with no exception pending, every step
\* the loop comes to is begun, and the run ends by returning the results,
\* one for each step of the suite unless a FAILED step stopped it.
C13_TimeoutNonFatal ==
    /\ [](nav_outcome = "timeout" =>
             /\ pending = None
             /\ pc \in {"steps", "actions", "verify", "returned", "teardown",
                        "done"}
             /\ (pc = "steps" /\ i < suite_len) => ENABLED BeginStep
             /\ pc = "done" =>
                   \/ Len(results) = suite_len
                   \/ /\ config.stop_on_failure
                      /\ Len(results) > 0
                      /\ results[Len(results)].status = FAILED)
    /\ [][(pc = "navigate" /\ nav_outcome' = "timeout") =>
             (/\ pc' = "steps"
              /\ <<entry, config, suite_len, handles, live, results, i, pending,
                    teardowns, stepVars, resolverVars>>' =
                 <<entry, config, suite_len, handles, live, results, i, pending,
                   teardowns, stepVars, resolverVars>>
              /\ handles = Resources
              /\ results = <<>>)]_vars

\* After a navigation timeout both steps of the suite ran and passed, and
\* the results were returned.
C13_Witness ==
    /\ pc = "done"
    /\ nav_outcome = "timeout"
    /\ suite_len = 2
    /\ Len(results) = 2
    /\ results[1].status = PASSED
    /\ results[2].status = PASSED

\* C14, as stated (Spec): an exception leaves execute_test_suite only when
\* acquiring the browser session failed. Violated: a base-URL navigation
\* that fails otherwise than by a timeout raises RuntimeError to the caller.
C14_Original ==
    pc = "raised" => pending = "SetupError"

\* C14 (Spec): an exception leaves execute_test_suite only when acquiring
\* the browser session failed, or when the base-URL navigation failed
\* otherwise than by a timeout (RuntimeError, after the teardown, before any
\* step); every run whose navigation succeeded or timed out returns, steps
\* FAILED or not, and the results returned are those of every step begun.
C14_RaisesOnlyBeforeSteps ==
    /\ pc = "raised" =>
          /\ pending \in {"SetupError", "RuntimeError"}
          /\ pending = "SetupError" <=> nav_outcome = None
          /\ pending = "RuntimeError" <=> nav_outcome = "error"
          /\ i = 0
          /\ results = <<>>
    /\ nav_outcome \in {"ok", "timeout"} => pending = None
    /\ pc = "done" =>
          /\ pending = None
          /\ Len(results) = i
          /\ \A j \in 1..i : results[j].step_number = j

\* A run returned the results of its two steps, the second of them FAILED.
C14_Witness ==
    /\ pc = "done"
    /\ i = 2
    /\ Len(results) = 2
    /\ results[1].status = PASSED
    /\ results[2].status = FAILED

\* C15 (Spec): _teardown_browser, whichever of its close calls raises (then
\* some resource stays open), changes neither the results nor the exception
\* in flight, sets every handle to None, and lets the run end as it would
\* have: the results are returned unless an exception was already pending.
C15_TeardownFailureContained ==
    /\ [](pc \in {"done", "raised"} /\ teardowns > 0 =>
             /\ handles = {}
             /\ pending \in {None, "RuntimeError"}
             /\ pc = "done" <=> pending = None)
    /\ [][(pc = "teardown") =>
             (/\ results' = results
              /\ pending' = pending
              /\ handles' = {}
              /\ live' \subseteq live
              /\ pc' = IF pending = None THEN "done" ELSE "raised")]_vars

\* context.close() raised after page.close(): the browser and Playwright
\* are still open, every handle is None and the two results were returned.
C15_Witness ==
    /\ pc = "done"
    /\ live = {"browser", "playwright"}
    /\ handles = {}
    /\ pending = None
    /\ Len(results) = 2

MarkerNumbers ==
    [j \in 1..Len(document.markers) |-> document.markers[j].number]

StrictlyAscending(numbers) ==
    \A a, b \in 1..Len(numbers) : a < b => numbers[a] < numbers[b]

\* C16 (SpecParser): a TestSuite that parse_file constructs or returns has
\* the numbers of the document's markers, sorted, as its step numbers, and
\* they are strictly ascending in list order (so pairwise distinct); for a
\* document with two markers of the same number no TestSuite is ever
\* constructed, and the construction that is reached raises ValueError out of
\* parse_file.
C16_DistinctAscending ==
    /\ [](pc \in {"validate", "parsed"} =>
             /\ StepNumbers(suite.steps) = Sorted(MarkerNumbers)
             /\ StrictlyAscending(StepNumbers(suite.steps)))
    /\ [](HasDuplicates(MarkerNumbers) =>
             /\ pc \notin {"validate", "parsed"}
             /\ suite = NoSuite)
    /\ [][(pc = "construct" /\ HasDuplicates(MarkerNumbers)) =>
             (/\ pc' = "parse_raised"
              /\ parse_error'.type = "ValueError"
              /\ suite' = NoSuite)]_vars

\* The markers 3, 1, 2 were parsed into the steps 1, 2, 3.
C16_Witness ==
    /\ pc = "parsed"
    /\ MarkerNumbers = <<3, 1, 2>>
    /\ StepNumbers(suite.steps) = <<1, 2, 3>>

\* Every marker of the document yields a TestStep that TestStep accepts.
WellFormedSteps ==
    \A j \in 1..Len(document.markers) :
        ~TestStepInvalid(document.markers[j].number,
                         document.markers[j].text.description)

C18_ContiguousOnly ==
    pc = "constructed" =>
        /\ suite.steps # <<>>
        /\ StepNumbers(suite.steps) = [j \in 1..Len(suite.steps) |-> j]

\* A TestSuite of the steps 1 and 3 was constructed.
C18_Witness ==
    /\ pc = "constructed"
    /\ StepNumbers(suite.steps) = <<1, 3>>

\* C19 (SpecParser): the global requirements of a suite parse_file returns
\* are those of the document, in its order, and the verifications of every
\* step are these global requirements followed by the verifications of the
\* step's own text; the same holds of every TestStep built on the way.
C19_GlobalsPrepended ==
    /\ \A j \in 1..Len(test_steps) :
          test_steps[j].verifications =
             document.globals \o steps[j].text.verifications
    /\ pc \in {"validate", "parsed"} =>
          /\ suite.global_requirements = document.globals
          /\ suite.steps = test_steps
          /\ \A j \in 1..Len(suite.steps) :
                LET vs == suite.steps[j].verifications
                    g == Len(suite.global_requirements)
                IN /\ Len(vs) >= g
                   /\ SubSeq(vs, 1, g) = suite.global_requirements
                   /\ SubSeq(vs, g + 1, Len(vs)) = steps[j].text.verifications

\* Two global requirements, and two steps of which the first has a
\* verification of its own.
C19_Witness ==
    /\ pc = "parsed"
    /\ Len(suite.steps) = 2
    /\ suite.steps[1].verifications =
          <<Verification(GlobalText(1)), Verification(GlobalText(2)),
            Verification(OwnText)>>
    /\ suite.steps[2].verifications =
          <<Verification(GlobalText(1)), Verification(GlobalText(2))>>

\* C20 (SpecParser): when the loop of parse_file comes to a step that
\* cannot be built, after any number of steps built, parse_file ends there
\* with a ValueError that names that step's number, and no TestSuite is
\* constructed; a document with such a step never yields a TestSuite.
C20_NoPartialSuite ==
    /\ [](~WellFormedSteps =>
             /\ pc \notin {"construct", "validate", "parsed"}
             /\ suite = NoSuite)
    /\ []((pc = "parse_raised") => suite = NoSuite)
    /\ []((pc = "parse_raised" /\ parse_error.message = "Failed to parse step") =>
             /\ Len(test_steps) < Len(steps)
             /\ parse_error.type = "ValueError"
             /\ parse_error.step_num = steps[Len(test_steps) + 1].number
             /\ TestStepInvalid(steps[Len(test_steps) + 1].number,
                                steps[Len(test_steps) + 1].text.description))
    /\ [][(/\ pc = "parse_steps"
           /\ TestStepInvalid(steps[Len(test_steps) + 1].number,
                              steps[Len(test_steps) + 1].text.description)) =>
             (/\ pc' = "parse_raised"
              /\ parse_error' =
                    ValueError("Failed to parse step",
                               steps[Len(test_steps) + 1].number)
              /\ suite' = NoSuite)]_vars

\* Steps 1 and 2 were built, step 3 has an empty description: parse_file
\* raised the error naming step 3.
C20_Witness ==
    /\ pc = "parse_raised"
    /\ Len(test_steps) = 2
    /\ StepNumbers(test_steps) = <<1, 2>>
    /\ parse_error = ValueError("Failed to parse step", 3)
    /\ steps[3].text.description = ""
    /\ suite = NoSuite

\* The issues of severity s the AI capability reported in the verification
\* results of the step results, each counted once.
RECURSIVE ReportedIssues(_, _)
ReportedIssues(step_results, severity) ==
    IF step_results = <<>> THEN 0
    ELSE CountVerificationIssues(step_results[1].verifications, severity)
         + ReportedIssues(Tail(step_results), severity)

\* C22, as stated (Spec): on the results execute_test_suite returns,
\* count_issues(s) is the number of issues of severity s the AI capability
\* reported, each counted once. Violated: the issue of a failed verification
\* is in its VerificationResult and, by _extract_issues, in the step's
\* issues, and count_issues adds up both.
C22_CountsEachIssueOnce ==
    pc = "done" =>
        \A s \in Severity : CountIssues(results, s) = ReportedIssues(results, s)

\* One step, one failed verification with one MINOR issue: count_issues
\* gives 2.
C22_Witness ==
    /\ pc = "done"
    /\ Len(results) = 1
    /\ ReportedIssues(results, MINOR) = 1
    /\ CountIssues(results, MINOR) = 2

\* C24, as stated (SpecStep): execute_step calls _capture_state exactly once,
\* also after an action that failed, and the result of a step that failed on
\* an action carries the screenshot and the HTML. Violated: the exception of
\* the action leaves the try block before the capture.
C24_OneSnapshotPerStep ==
    pc = "returned" =>
        /\ calls.capture = 1
        /\ calls.failed_action > 0 =>
              (ret.screenshot # None /\ ret.html_snapshot # None)

\* The second action of a step failed: no capture, no screenshot.
C24_Witness ==
    /\ pc = "returned"
    /\ calls.failed_action = 2
    /\ calls.capture = 0
    /\ ret.screenshot = None
    /\ ret.html_snapshot = None

\* C28 (SpecStep): once an action of the step has failed, no AI call is made;
\* the result is FAILED with error_message set, no verification results and
\* no issues; and every result of execute_step with error_message set is
\* FAILED without verification results.
C28_NoVerificationAfterActionFailure ==
    /\ calls.failed_action > 0 => (calls.ai = 0 /\ calls.capture = 0)
    /\ pc = "returned" =>
          /\ calls.failed_action > 0 =>
                /\ ret.status = FAILED
                /\ ret.error_message # None
                /\ ret.verifications = <<>>
                /\ ret.issues = <<>>
          /\ ret.error_message # None =>
                (ret.status = FAILED /\ ret.verifications = <<>>)

\* The second action of a step with two verifications failed.
C28_Witness ==
    /\ pc = "returned"
    /\ calls.action = 2
    /\ calls.failed_action = 2
    /\ Len(step.verifications) = 2
    /\ calls.ai = 0
    /\ ret.status = FAILED

\* C29 (Spec): the results never outnumber the steps and none is SKIPPED;
\* when stop_on_failure is not configured and the run returns, there is one
\* result for each step of the suite, in suite order, with the step's number.
C29_OneResultPerStep ==
    /\ Len(results) <= suite_len
    /\ \A j \in 1..Len(results) : results[j].status # SKIPPED
    /\ (pc = "done" /\ ~config.stop_on_failure) =>
          /\ Len(results) = suite_len
          /\ \A j \in 1..suite_len : results[j].step_number = j

\* Without stop_on_failure both steps of the suite FAILED and both have a
\* result.
C29_Witness ==
    /\ pc = "done"
    /\ ~config.stop_on_failure
    /\ suite_len = 2
    /\ Len(results) = 2
    /\ results[1].status = FAILED
    /\ results[2].status = FAILED

\* C30, as stated (Spec): when _setup_browser raises, every resource it had
\* acquired is released before the exception reaches the caller. Violated:
\* _setup_browser is called before the try block and releases nothing.
C30_SetupFailureReleases ==
    (pc = "raised" /\ pending = "SetupError") => live = {}

\* new_context raised: Playwright and the browser stay open.
C30_Witness ==
    /\ pc = "raised"
    /\ pending = "SetupError"
    /\ live = {"playwright", "browser"}
    /\ teardowns = 0

\* C23: the response cache never holds more than max_size entries, whatever
\* sequence of set, get, cleanup_expired and clear calls it has served.
C23_SizeWithinMaxSize ==
    entry = "ResponseCache" => Len(cache) <= max_size

\* A set of a new key on a full cache has evicted the oldest entry, and the
\* cache is full again.
C23_Witness ==
    /\ entry = "ResponseCache"
    /\ Len(cache) = max_size
    /\ max_size = MaxCacheSize
    /\ \A m \in 1..Len(cache) : cache[m].key # 1
    /\ evicted
    /\ cache[Len(cache)].key = MaxKeys
    /\ cache[Len(cache)].cached_time > cache[1].cached_time

\* The document of Scenario A: one bullet in the section, one step of three
\* sentences.
ScenarioA ==
    /\ entry = "_parse_step"
    /\ global_section = << <<"Make", "sure", "the", "logo", "is", "visible">> >>
    /\ sentences =
          << <<"Go", "to", "the", "homepage", ".">>,
             <<"Click", "on", "'Login'", ".">>,
             <<"Verify", "that", "the", "login", "form", "is", "visible", ".">> >>

ScenarioAVerifications ==
    /\ Len(parsed_step.verifications) = 2
    /\ parsed_step.verifications[1].text = <<"the", "logo", "is", "visible">>
    /\ parsed_step.verifications[2].text =
          <<"the", "login", "form", "is", "visible">>

\* C21 as stated: the step parsed from Scenario A has the global verification
\* about the logo, then the local one about the login form, and exactly one
\* action, a CLICK with target "Login".
C21_ScenarioA_OneAction ==
    (ScenarioA /\ pc = "returned") =>
        /\ ScenarioAVerifications
        /\ Len(parsed_step.actions) = 1
        /\ parsed_step.actions[1].type = CLICK
        /\ parsed_step.actions[1].target = <<"Login">>

\* C21, amended: the step parsed from Scenario A has the global verification
\* about the logo, then the local one about the login form, and exactly two
\* actions: a NAVIGATE with target "homepage", then a CLICK with target
\* "Login".
C21_ScenarioA_TwoActions ==
    (ScenarioA /\ pc = "returned") =>
        /\ ScenarioAVerifications
        /\ Len(parsed_step.actions) = 2
        /\ parsed_step.actions[1].type = NAVIGATE
        /\ parsed_step.actions[1].target = <<"homepage">>
        /\ parsed_step.actions[2].type = CLICK
        /\ parsed_step.actions[2].target = <<"Login">>

\* _parse_step has returned the step of Scenario A.
C21_Witness ==
    /\ ScenarioA
    /\ pc = "returned"
    /\ parsed_step.returned
    /\ Len(matched) = 3

\* C25: within a parsed step no two verifications have the same text when
\* compared case-insensitively, the global requirements included.
C25_NoDuplicateTexts ==
    (entry = "_parse_step" /\ pc = "returned") =>
        \A a, b \in 1..Len(parsed_step.verifications) :
            a # b => LowerText(parsed_step.verifications[a].text)
                        # LowerText(parsed_step.verifications[b].text)

\* A step whose own text repeats, with another capital, the requirement of
\* the section: both verifications are in the step.
C25_Witness ==
    /\ entry = "_parse_step"
    /\ pc = "returned"
    /\ Len(global_section) = 1
    /\ Len(parsed_step.verifications) = 2
    /\ parsed_step.verifications[1].text = <<"the", "logo", "is", "visible">>
    /\ parsed_step.verifications[2].text = <<"the", "Logo", "is", "visible">>

\* C26: a sentence yields at most one verification, the capture of the first
\* trigger pattern that matches it; when that capture is a duplicate or too
\* short the sentence yields none, and no later pattern is applied.
C26_FirstMatchWins ==
    entry = "_parse_step" =>
        /\ Len(step_verifications) <= Len(matched)
        /\ \A j \in 1..Len(matched) :
              matched[j].used \in {0, matched[j].first}

\* The same sentence twice: its second occurrence yields the capture of the
\* second pattern, the capture of the first being a duplicate.
C26_Witness ==
    /\ entry = "_parse_step"
    /\ Len(matched) = 2
    /\ sentences[1] = sentences[2]
    /\ matched[1] = [first |-> 1, used |-> 1]
    /\ matched[2] = [first |-> 1, used |-> 2]
    /\ step_verifications[2].text = <<"the", "logo", "is", "shown">>

C27_Critical(sentence) ==
    \/ Contains(sentence, <<"critical">>)
    \/ Contains(sentence, <<"must">>)
    \/ Contains(sentence, <<"required">>)
    \/ Contains(sentence, <<"has", "to">>)

\* C27 as stated: a verification of the step text is CRITICAL if its sentence
\* contains critical, must, required or has to; otherwise MINOR if it
\* contains should or preferably; otherwise MAJOR.
C27_SixKeywords ==
    entry = "_parse_step" =>
        \A j \in 1..Len(step_verifications) :
            LET v == step_verifications[j]
                minor == \/ Contains(v.description, <<"should">>)
                         \/ Contains(v.description, <<"preferably">>)
            IN v.severity = IF C27_Critical(v.description) THEN CRITICAL
                            ELSE IF minor THEN MINOR
                            ELSE MAJOR

\* C27, amended: a verification of the step text is CRITICAL if its sentence
\* contains critical, must, required or has to; otherwise MINOR if it
\* contains should, preferably or nice to have; otherwise MAJOR.
C27_SevenKeywords ==
    entry = "_parse_step" =>
        \A j \in 1..Len(step_verifications) :
            LET v == step_verifications[j]
                minor == \/ Contains(v.description, <<"should">>)
                         \/ Contains(v.description, <<"preferably">>)
                         \/ Contains(v.description, <<"nice", "to", "have">>)
            IN v.severity = IF C27_Critical(v.description) THEN CRITICAL
                            ELSE IF minor THEN MINOR
                            ELSE MAJOR

\* One step text has yielded a MINOR verification from "nice to have", a
\* CRITICAL one from a sentence with should and critical, and a MAJOR one.
C27_Witness ==
    /\ entry = "_parse_step"
    /\ Len(step_verifications) = 3
    /\ \E j \in 1..3 :
          /\ step_verifications[j].severity = MINOR
          /\ Contains(step_verifications[j].description, <<"nice", "to", "have">>)
    /\ \E j \in 1..3 :
          /\ step_verifications[j].severity = CRITICAL
          /\ Contains(step_verifications[j].description, <<"should">>)
    /\ \E j \in 1..3 : step_verifications[j].severity = MAJOR

====
